---- MODULE Spec2Model ----
(***************************************************************************)
(* Fat Hacks 2025 trip planner (src/src/App.tsx): the canonical task list  *)
(* of App, its write-through to localStorage, the optional Supabase        *)
(* mirror with its live change feed, and the Reminders scheduler.          *)
(*                                                                         *)
(* Time is counted in minutes: a timestamp is a Nat, and a lead of L       *)
(* minutes is L units (the code multiplies by 60000 to reach ms).          *)
(* React runs one handler at a time; after a handler changed state the     *)
(* component re-renders and its effects run before the next handler. The   *)
(* model keeps this as `pending`: while it is TRUE only RunEffects can     *)
(* step.                                                                   *)
(***************************************************************************)
EXTENDS Integers, Sequences, FiniteSets, TLC

\* ---------------------------------------------------------------- bounds
MaxNow == 2          \* the clock runs 0..MaxNow
MaxOps == 2          \* edits and deletions by the user in one behaviour
MaxSyncOps == 1      \* of these, the ones made while connected
MaxRemoteOps == 1    \* writes of other clients in one behaviour
MaxReloads == 1      \* page reloads in one behaviour
MaxNames == 1        \* names added to the people list in one behaviour

\* ------------------------------------------------------------ data model
\* `undefined` and `null` of the optional numeric fields (sla, lead)
UndefN == -1
NullN == -2
\* `undefined` and `null` of the optional string fields
UndefS == "undefined"
NullS == "null"

STATUSES == <<"Not Started", "In Progress", "Done">>
PEOPLE == <<"Buzza", "Stork", "Marty", "Robbie", "Ronnie">>
StatusSet == {STATUSES[i] : i \in 1..Len(STATUSES)}

\* the identifiers uid() hands out in one behaviour, in this order
Ids == {1, 2}
Titles == {"", "a"}
\* what the model's users type: a title, a deadline (minute 1, or none) and
\* a reminder lead (one minute, or none)
SlaInputs == {UndefN, 1}
LeadInputs == {UndefN, 1}

\* reminderSent?: boolean  -- absent, false or true
SentVals == {"absent", "false", "true"}
Truthy(s) == s = "true"

TaskKeys == {"id", "title", "category", "assignee", "status", "details", "sla",
             "reminderLeadMinutes", "reminderSent", "createdAt", "updatedAt"}

\* does key k of task t hold `undefined` (JSON.stringify leaves such keys out)
IsUndefined(t, k) ==
    \/ k \in {"sla", "reminderLeadMinutes"} /\ t[k] = UndefN
    \/ k = "details" /\ t[k] = UndefS
    \/ k = "reminderSent" /\ t[k] = "absent"

UndefinedOf(k) ==
    IF k \in {"sla", "reminderLeadMinutes"} THEN UndefN
    ELSE IF k = "reminderSent" THEN "absent"
    ELSE UndefS

\* a serialiser that also leaves out the keys holding a falsy string
ToJsonTruthy(t) ==
    [k \in {x \in TaskKeys : ~IsUndefined(t, x) /\ ~(x \in {"title", "category"} /\ t[x] = "")} |-> t[k]]
\* ls.write: JSON.stringify drops the keys that hold undefined
ToJson(t) == [k \in {x \in TaskKeys : ~IsUndefined(t, x)} |-> t[k]]
\* ls.read: JSON.parse; reading a key that is not there gives undefined
FromJson(j) == [k \in TaskKeys |-> IF k \in DOMAIN j THEN j[k] ELSE UndefinedOf(k)]

ToJsonList(ts) == [i \in 1..Len(ts) |-> ToJson(ts[i])]
FromJsonList(js) == [i \in 1..Len(js) |-> FromJson(js[i])]

\* localStorage item: has = FALSE when getItem returns null
NoItem == [has |-> FALSE, val |-> <<>>]
lsWrite(v) == [has |-> TRUE, val |-> ToJsonList(v)]
\* a read that never finds the item
lsReadFallback(item, fallback) == fallback
lsRead(item, fallback) == IF ~item.has THEN fallback ELSE FromJsonList(item.val)

\* TaskForm.submit builds the new task; reminderSent is not set. The form is
\* left at its initial title "", category "", assignee people[0], status
\* "Not Started" and details "" (`details || undefined`).
NewTask(id, sla, lead, at) ==
    [id |-> id, title |-> "", category |-> "", assignee |-> PEOPLE[1],
     status |-> STATUSES[1], details |-> UndefS, sla |-> sla,
     reminderLeadMinutes |-> lead, reminderSent |-> "absent",
     createdAt |-> at, updatedAt |-> at]

\* makeSeedTasks: one task per entry of DEFAULT_TASKS (the first two of its
\* seven entries are kept), due i+1 days after `at`; roll[i] is what
\* roll(PEOPLE) returned for entry i, and uid() hands out 1, 2, ...
DEFAULT_TASKS == <<"Flights", "Accommodation">>
DayMinutes == 1440
SeedLead == 60
Rolls == [1..Len(DEFAULT_TASKS) -> {PEOPLE[k] : k \in 1..Len(PEOPLE)}]
makeSeedTasks(at, roll) ==
    [i \in 1..Len(DEFAULT_TASKS) |->
        [id |-> i, title |-> DEFAULT_TASKS[i], category |-> DEFAULT_TASKS[i],
         assignee |-> roll[i],
         status |-> IF (i - 1) % 3 = 0 THEN "Done" ELSE IF (i - 1) % 3 = 1 THEN "In Progress" ELSE "Not Started",
         details |-> IF i - 1 = 2 THEN "Book 2x rounds" ELSE "",
         sla |-> at + i * DayMinutes,
         reminderLeadMinutes |-> SeedLead, reminderSent |-> "false",
         createdAt |-> at, updatedAt |-> at]]

\* ------------------------------------------------------------ share codec
\* A JavaScript string is the sequence of its code points. Chars gives the
\* characters of the strings the model writes; "<U+00E9>" and "<U+2022>" in a
\* name stand for the one character with that code point.
KnownStrings ==
    {"", "a", "id", "title", "category", "assignee", "status", "details", "sla",
     "reminderLeadMinutes", "reminderSent", "createdAt", "updatedAt", "tasks",
     "settings", "kickoffISO", "Not Started", "In Progress", "Done", "Buzza", "Stork",
     "Marty", "Robbie", "Ronnie", "Flights", "Accommodation", "Book 2x rounds", "Zed",
     "say \"hi\"", "caf<U+00E9> <U+2022> 8am", " Zed ", " ", "url", "key", "pu", "pk"}
Chars(s) ==
    CASE
         s = "" -> <<>>
      [] s = "a" -> <<97>>
      [] s = "id" -> <<105, 100>>
      [] s = "title" -> <<116, 105, 116, 108, 101>>
      [] s = "category" -> <<99, 97, 116, 101, 103, 111, 114, 121>>
      [] s = "assignee" -> <<97, 115, 115, 105, 103, 110, 101, 101>>
      [] s = "status" -> <<115, 116, 97, 116, 117, 115>>
      [] s = "details" -> <<100, 101, 116, 97, 105, 108, 115>>
      [] s = "sla" -> <<115, 108, 97>>
      [] s = "reminderLeadMinutes" -> <<114, 101, 109, 105, 110, 100, 101, 114, 76, 101, 97, 100, 77, 105, 110, 117, 116, 101, 115>>
      [] s = "reminderSent" -> <<114, 101, 109, 105, 110, 100, 101, 114, 83, 101, 110, 116>>
      [] s = "createdAt" -> <<99, 114, 101, 97, 116, 101, 100, 65, 116>>
      [] s = "updatedAt" -> <<117, 112, 100, 97, 116, 101, 100, 65, 116>>
      [] s = "tasks" -> <<116, 97, 115, 107, 115>>
      [] s = "settings" -> <<115, 101, 116, 116, 105, 110, 103, 115>>
      [] s = "kickoffISO" -> <<107, 105, 99, 107, 111, 102, 102, 73, 83, 79>>
      [] s = "Not Started" -> <<78, 111, 116, 32, 83, 116, 97, 114, 116, 101, 100>>
      [] s = "In Progress" -> <<73, 110, 32, 80, 114, 111, 103, 114, 101, 115, 115>>
      [] s = "Done" -> <<68, 111, 110, 101>>
      [] s = "Buzza" -> <<66, 117, 122, 122, 97>>
      [] s = "Stork" -> <<83, 116, 111, 114, 107>>
      [] s = "Marty" -> <<77, 97, 114, 116, 121>>
      [] s = "Robbie" -> <<82, 111, 98, 98, 105, 101>>
      [] s = "Ronnie" -> <<82, 111, 110, 110, 105, 101>>
      [] s = "Flights" -> <<70, 108, 105, 103, 104, 116, 115>>
      [] s = "Accommodation" -> <<65, 99, 99, 111, 109, 109, 111, 100, 97, 116, 105, 111, 110>>
      [] s = "Book 2x rounds" -> <<66, 111, 111, 107, 32, 50, 120, 32, 114, 111, 117, 110, 100, 115>>
      [] s = "Zed" -> <<90, 101, 100>>
      [] s = " Zed " -> <<32, 90, 101, 100, 32>>
      [] s = " " -> <<32>>
      [] s = "url" -> <<117, 114, 108>>
      [] s = "key" -> <<107, 101, 121>>
      [] s = "pu" -> <<112, 117>>
      [] s = "pk" -> <<112, 107>>
      [] s = "say \"hi\"" -> <<115, 97, 121, 32, 34, 104, 105, 34>>
      [] s = "caf<U+00E9> <U+2022> 8am" -> <<99, 97, 102, 233, 32, 8226, 32, 56, 97, 109>>
\* the string with these characters, or "?" when the model has no name for it
NameOf(cps) ==
    IF \E s \in KnownStrings : Chars(s) = cps
    THEN CHOOSE s \in KnownStrings : Chars(s) = cps
    ELSE "?"

RECURSIVE Flat(_)
Flat(ss) ==
    IF ss = <<>> THEN <<>>
    ELSE IF Len(ss) = 1 THEN ss[1]
    ELSE Flat(SubSeq(ss, 1, Len(ss) \div 2)) \o Flat(SubSeq(ss, (Len(ss) \div 2) + 1, Len(ss)))

\* one byte per character, the low eight bits of its code
Utf8CharNarrow(c) == <<c % 256>>
\* unescape(encodeURIComponent(str)): the UTF-8 bytes of str, one character per byte
Utf8Char(c) ==
    IF c < 128 THEN <<c>>
    ELSE IF c < 2048 THEN <<192 + (c \div 64), 128 + (c % 64)>>
    ELSE <<224 + (c \div 4096), 128 + ((c \div 64) % 64), 128 + (c % 64)>>
Utf8(cps) == Flat([i \in DOMAIN cps |-> Utf8Char(cps[i])])

\* what a function that threw returns
Thrown == [ok |-> FALSE]
Returned(v) == [ok |-> TRUE, v |-> v]

\* decodeURIComponent(escape(bin)): the string whose UTF-8 bytes are bin;
\* throws URIError on a byte sequence that is not UTF-8
IsCont(b) == b >= 128 /\ b < 192
\* the number of bytes the character that starts with byte b takes, 0 for a
\* byte no character starts with
Width(b) == IF b < 128 THEN 1 ELSE IF b >= 194 /\ b < 224 THEN 2 ELSE IF b >= 224 /\ b < 240 THEN 3 ELSE 0
WellFormedAt(bs, i) ==
    /\ Width(bs[i]) > 0
    /\ i + Width(bs[i]) - 1 <= Len(bs)
    /\ \A j \in (i + 1)..(i + Width(bs[i]) - 1) : IsCont(bs[j])
    /\ bs[i] = 224 => bs[i + 1] >= 160
CodeAt(bs, i) ==
    IF Width(bs[i]) = 1 THEN bs[i]
    ELSE IF Width(bs[i]) = 2 THEN (bs[i] - 192) * 64 + (bs[i + 1] - 128)
    ELSE (bs[i] - 224) * 4096 + (bs[i + 1] - 128) * 64 + (bs[i + 2] - 128)
Utf8Dec(bs) ==
    LET starts == SelectSeq([i \in DOMAIN bs |-> i], LAMBDA i : ~IsCont(bs[i]))
    IN  IF /\ \A k \in DOMAIN starts : WellFormedAt(bs, starts[k])
           /\ \A i \in DOMAIN bs :
                 IsCont(bs[i]) => \E k \in DOMAIN starts :
                                     starts[k] < i /\ i < starts[k] + Width(bs[starts[k]])
        THEN Returned([k \in DOMAIN starts |-> CodeAt(bs, starts[k])])
        ELSE Thrown

\* btoa: base64 of a binary string, as the sequence of its digits 0..63, with
\* Pad for "="; throws on a character above 255
Pad == 64
B64Group(bs) ==
    IF Len(bs) = 1
    THEN <<bs[1] \div 4, (bs[1] % 4) * 16, Pad, Pad>>
    ELSE IF Len(bs) = 2
    THEN <<bs[1] \div 4, (bs[1] % 4) * 16 + (bs[2] \div 16), (bs[2] % 16) * 4, Pad>>
    ELSE <<bs[1] \div 4, (bs[1] % 4) * 16 + (bs[2] \div 16), (bs[2] % 16) * 4 + (bs[3] \div 64), bs[3] % 64>>
B64(bs) ==
    Flat([g \in 1..((Len(bs) + 2) \div 3) |->
             B64Group(SubSeq(bs, 3 * g - 2, IF 3 * g <= Len(bs) THEN 3 * g ELSE Len(bs)))])
btoa(bs) == IF \E i \in DOMAIN bs : bs[i] > 255 THEN Thrown ELSE Returned(B64(bs))

\* atob: up to two "=" come off the end of a text of 4k digits; what is left
\* must be digits only and not 4k+1 long
Unpadded(ds) ==
    IF Len(ds) % 4 /= 0 \/ ds = <<>> \/ ds[Len(ds)] /= Pad THEN ds
    ELSE IF ds[Len(ds) - 1] = Pad THEN SubSeq(ds, 1, Len(ds) - 2)
    ELSE SubSeq(ds, 1, Len(ds) - 1)
UnB64Group(ds) ==
    IF Len(ds) < 2 THEN <<>>
    ELSE IF Len(ds) = 2 THEN <<ds[1] * 4 + (ds[2] \div 16)>>
    ELSE IF Len(ds) = 3 THEN <<ds[1] * 4 + (ds[2] \div 16), (ds[2] % 16) * 16 + (ds[3] \div 4)>>
    ELSE <<ds[1] * 4 + (ds[2] \div 16), (ds[2] % 16) * 16 + (ds[3] \div 4), (ds[3] % 4) * 64 + ds[4]>>
UnB64(ds) ==
    Flat([g \in 1..((Len(ds) + 3) \div 4) |->
             UnB64Group(SubSeq(ds, 4 * g - 3, IF 4 * g <= Len(ds) THEN 4 * g ELSE Len(ds)))])
atob(ds) ==
    LET u == Unpadded(ds)
    IN  IF (\E i \in DOMAIN u : u[i] < 0 \/ u[i] >= Pad) \/ Len(u) % 4 = 1
        THEN Thrown ELSE Returned(UnB64(u))

\* JSON values: null, booleans, numbers, strings, arrays, and objects as the
\* sequence of their members in insertion order
JNull == [t |-> "null"]
JBool(b) == [t |-> "bool", v |-> b]
JNum(n) == [t |-> "num", v |-> n]
JStr(cps) == [t |-> "str", v |-> cps]
JArr(vs) == [t |-> "arr", v |-> vs]
JObj(ms) == [t |-> "obj", v |-> ms]
Member(k, v) == [k |-> k, v |-> v]

RECURSIVE Digits(_)
Digits(n) == IF n < 10 THEN <<48 + n>> ELSE Digits(n \div 10) \o <<48 + (n % 10)>>
NumText(n) == IF n < 0 THEN <<45>> \o Digits(0 - n) ELSE Digits(n)
StrText(cps) ==
    <<34>> \o Flat([i \in DOMAIN cps |->
                      IF cps[i] = 34 \/ cps[i] = 92 THEN <<92, cps[i]>> ELSE <<cps[i]>>]) \o <<34>>
Joined(ss) == Flat([i \in 1..(2 * Len(ss) - 1) |-> IF i % 2 = 1 THEN ss[(i + 1) \div 2] ELSE <<44>>])

\* JSON.stringify of a value without undefined in it
RECURSIVE JsonText(_)
JsonText(j) ==
    CASE j.t = "null" -> <<110, 117, 108, 108>>
      [] j.t = "bool" -> IF j.v THEN <<116, 114, 117, 101>> ELSE <<102, 97, 108, 115, 101>>
      [] j.t = "num" -> NumText(j.v)
      [] j.t = "str" -> StrText(j.v)
      [] j.t = "arr" -> <<91>> \o Joined([i \in DOMAIN j.v |-> JsonText(j.v[i])]) \o <<93>>
      [] j.t = "obj" -> <<123>> \o Joined([i \in DOMAIN j.v |->
                                              StrText(j.v[i].k) \o <<58>> \o JsonText(j.v[i].v)]) \o <<125>>

\* JSON.parse, for texts without white space: a value and the position after it
At(txt, i) == IF i >= 1 /\ i <= Len(txt) THEN txt[i] ELSE 0
Lit(txt, i, w) == i + Len(w) - 1 <= Len(txt) /\ SubSeq(txt, i, i + Len(w) - 1) = w
Parsed(v, i) == [ok |-> TRUE, v |-> v, i |-> i]
RECURSIVE ParseValue(_, _), ParseStr(_, _, _), ParseNum(_, _, _), ParseElems(_, _, _), ParseMembers(_, _, _)
ParseStr(txt, i, acc) ==
    IF i > Len(txt) THEN Thrown
    ELSE IF txt[i] = 34 THEN Parsed(JStr(acc), i + 1)
    ELSE IF txt[i] = 92
         THEN (IF At(txt, i + 1) \in {34, 92} THEN ParseStr(txt, i + 2, Append(acc, txt[i + 1])) ELSE Thrown)
    ELSE ParseStr(txt, i + 1, Append(acc, txt[i]))
ParseNum(txt, i, n) ==
    IF At(txt, i) \in 48..57 THEN ParseNum(txt, i + 1, n * 10 + (txt[i] - 48)) ELSE Parsed(JNum(n), i)
ParseElems(txt, i, acc) ==
    LET r == ParseValue(txt, i)
    IN  IF ~r.ok THEN Thrown
        ELSE IF At(txt, r.i) = 44 THEN ParseElems(txt, r.i + 1, Append(acc, r.v))
        ELSE IF At(txt, r.i) = 93 THEN Parsed(JArr(Append(acc, r.v)), r.i + 1)
        ELSE Thrown
ParseMembers(txt, i, acc) ==
    IF At(txt, i) /= 34 THEN Thrown
    ELSE LET k == ParseStr(txt, i + 1, <<>>)
         IN  IF ~k.ok \/ At(txt, k.i) /= 58 THEN Thrown
             ELSE LET r == ParseValue(txt, k.i + 1)
                  IN  IF ~r.ok THEN Thrown
                      ELSE IF At(txt, r.i) = 44
                           THEN ParseMembers(txt, r.i + 1, Append(acc, Member(k.v.v, r.v)))
                      ELSE IF At(txt, r.i) = 125
                           THEN Parsed(JObj(Append(acc, Member(k.v.v, r.v))), r.i + 1)
                      ELSE Thrown
ParseValue(txt, i) ==
    LET c == At(txt, i)
    IN  IF c = 110 THEN (IF Lit(txt, i, <<110, 117, 108, 108>>) THEN Parsed(JNull, i + 4) ELSE Thrown)
        ELSE IF c = 116 THEN (IF Lit(txt, i, <<116, 114, 117, 101>>) THEN Parsed(JBool(TRUE), i + 4) ELSE Thrown)
        ELSE IF c = 102
             THEN (IF Lit(txt, i, <<102, 97, 108, 115, 101>>) THEN Parsed(JBool(FALSE), i + 5) ELSE Thrown)
        ELSE IF c = 34 THEN ParseStr(txt, i + 1, <<>>)
        ELSE IF c \in 48..57 THEN ParseNum(txt, i, 0)
        ELSE IF c = 91
             THEN (IF At(txt, i + 1) = 93 THEN Parsed(JArr(<<>>), i + 2) ELSE ParseElems(txt, i + 1, <<>>))
        ELSE IF c = 123
             THEN (IF At(txt, i + 1) = 125 THEN Parsed(JObj(<<>>), i + 2) ELSE ParseMembers(txt, i + 1, <<>>))
        ELSE Thrown
JsonParse(txt) ==
    LET r == ParseValue(txt, 1)
    IN  IF r.ok /\ r.i = Len(txt) + 1 THEN Returned(r.v) ELSE Thrown

\* encodeState: btoa(unescape(encodeURIComponent(JSON.stringify(data)))), and
\* btoa(JSON.stringify(data)) when that throws
encodeState(data) ==
    LET first == btoa(Utf8(JsonText(data)))
    IN  IF first.ok THEN first ELSE btoa(JsonText(data))

\* decodeState: JSON.parse(decodeURIComponent(escape(atob(s)))), and
\* JSON.parse(atob(s)) when that throws
decodeState(s) ==
    LET bin == atob(s)
        str == IF bin.ok THEN Utf8Dec(bin.v) ELSE Thrown
        first == IF str.ok THEN JsonParse(str.v) ELSE Thrown
    IN  IF first.ok THEN first
        ELSE IF bin.ok THEN JsonParse(bin.v) ELSE Thrown

\* The objects of the data model as JSON.stringify sees them: a key that holds
\* undefined is left out. Identifiers and timestamps are strings in the program
\* (uid(), toISOString()); the model's numbers are written as their digits.
TaskKeySeq ==
    <<"id", "title", "category", "assignee", "status", "details", "sla",
      "reminderLeadMinutes", "reminderSent", "createdAt", "updatedAt">>
FieldJson(t, k) ==
    IF k \in {"id", "sla", "createdAt", "updatedAt"} THEN JStr(Digits(t[k]))
    ELSE IF k = "reminderLeadMinutes" THEN JNum(t[k])
    ELSE IF k = "reminderSent" THEN JBool(Truthy(t[k]))
    ELSE JStr(Chars(t[k]))
TaskJson(t) ==
    LET keys == SelectSeq(TaskKeySeq, LAMBDA k : ~IsUndefined(t, k))
    IN  JObj([i \in DOMAIN keys |-> Member(Chars(keys[i]), FieldJson(t, keys[i]))])
SettingsJson(st) ==
    JObj(IF st.kickoffISO = UndefN THEN <<>>
         ELSE <<Member(Chars("kickoffISO"), JStr(Digits(st.kickoffISO)))>>)
SnapJson(snap) ==
    JObj(<<Member(Chars("tasks"), JArr([i \in DOMAIN snap.tasks |-> TaskJson(snap.tasks[i])])),
           Member(Chars("settings"), SettingsJson(snap.settings))>>)

\* obj.key on a parsed object: the value of the last member of that name, or
\* Undefined
Undefined == [t |-> "undefined"]
Get(j, key) ==
    IF j.t /= "obj" THEN Undefined
    ELSE LET hits == {i \in DOMAIN j.v : j.v[i].k = Chars(key)}
         IN  IF hits = {} THEN Undefined
             ELSE j.v[CHOOSE i \in hits : \A h \in hits : h <= i].v
RECURSIVE Number(_, _)
Number(ds, n) == IF ds = <<>> THEN n ELSE Number(Tail(ds), n * 10 + (Head(ds) - 48))
\* the task a parsed task object is, read field by field
FieldOf(j, k) ==
    LET x == Get(j, k)
    IN  IF x = Undefined THEN UndefinedOf(k)
        ELSE IF k \in {"id", "sla", "createdAt", "updatedAt"} THEN Number(x.v, 0)
        ELSE IF k = "reminderLeadMinutes" THEN x.v
        ELSE IF k = "reminderSent" THEN (IF x.v THEN "true" ELSE "false")
        ELSE NameOf(x.v)
TaskOf(j) == [k \in TaskKeys |-> FieldOf(j, k)]
SettingsOf(j) ==
    [kickoffISO |-> IF Get(j, "kickoffISO") = Undefined THEN UndefN ELSE Number(Get(j, "kickoffISO").v, 0)]

\* String.prototype.trim: white space off both ends
IsSpace(c) == c \in {9, 10, 11, 12, 13, 32, 160}
Trim(s) ==
    LET cps == Chars(s)
        inked == {i \in DOMAIN cps : ~IsSpace(cps[i])}
        lo == CHOOSE i \in inked : \A j \in inked : i <= j
        hi == CHOOSE i \in inked : \A j \in inked : i >= j
    IN  IF inked = {} THEN "" ELSE NameOf(SubSeq(cps, lo, hi))

\* ------------------------------------------------------- list operations
\* Array.from(new Set(xs)): the first occurrence of every element, in order
ArrayFromSet(xs) ==
    LET firsts == {i \in DOMAIN xs : \A j \in 1..(i-1) : xs[j] /= xs[i]}
        nth(k) == CHOOSE i \in firsts : Cardinality({j \in firsts : j <= i}) = k
    IN  [k \in 1..Cardinality(firsts) |-> xs[nth(k)]]
\* allAssignees: the people list and then the assignees on the tasks, without
\* blanks and repeats
allAssignees(ps, ts) ==
    ArrayFromSet(ps \o SelectSeq([i \in DOMAIN ts |-> ts[i].assignee], LAMBDA a : a /= ""))
Names(ps, ts) == {allAssignees(ps, ts)[i] : i \in DOMAIN allAssignees(ps, ts)}
IdsOf(ts) == {ts[i].id : i \in 1..Len(ts)}
HasId(ts, id) == \E i \in 1..Len(ts) : ts[i].id = id
\* prev.find(x => x.id === id): the first entry with that id
IndexOf(ts, id) == CHOOSE i \in 1..Len(ts) : ts[i].id = id /\ \A j \in 1..(i-1) : ts[j].id /= id
Find(ts, id) == ts[IndexOf(ts, id)]

\* prev.map(t => t.id === next.id ? next : t)
MapReplace(ts, next) == [i \in 1..Len(ts) |-> IF ts[i].id = next.id THEN next ELSE ts[i]]
\* prev.filter(t => t.id !== id)
FilterOut(ts, id) == SelectSeq(ts, LAMBDA t : t.id /= id)
\* [t, ...prev]
Prepend(t, ts) == <<t>> \o ts

\* ----------------------------------------------------- reminder scheduler
\* fireAt = new Date(t.sla).getTime() - (t.reminderLeadMinutes ?? 0) * 60000
Lead(t) == IF t.reminderLeadMinutes = UndefN THEN 0 ELSE t.reminderLeadMinutes
FireAt(t) == t.sla - Lead(t)
\* a tick that compares with > and so misses the threshold instant itself
FiresLate(t, at) ==
    /\ t.sla /= UndefN
    /\ t.status /= "Done"
    /\ at > FireAt(t)
    /\ ~Truthy(t.reminderSent)
\* a tick that does not skip the tasks that are Done
FiresDone(t, at) ==
    /\ t.sla /= UndefN
    /\ at >= FireAt(t)
    /\ ~Truthy(t.reminderSent)
\* tick: if (!t.sla || t.status === "Done") return; if (now >= fireAt && !t.reminderSent) ...
Fires(t, at) ==
    /\ t.sla /= UndefN
    /\ t.status /= "Done"
    /\ at >= FireAt(t)
    /\ ~Truthy(t.reminderSent)
\* the positions of the closure's list whose reminder goes out at this tick
Firing(ts, at) == {i \in 1..Len(ts) : Fires(ts[i], at)}
\* an onFlag that sets the flag and leaves updatedAt as it was
FlagKeepTime(t, at) == [t EXCEPT !.reminderSent = "true"]
\* onFlag: prev.map(t => t.id === id ? {...t, reminderSent: true, updatedAt: now} : t)
Flag(t, at) == [t EXCEPT !.reminderSent = "true", !.updatedAt = at]
\* a flag update that also moves the flagged entries to the head of the list
FlagAllFront(ts, ids, at) ==
    SelectSeq([i \in 1..Len(ts) |-> IF ts[i].id \in ids THEN Flag(ts[i], at) ELSE ts[i]],
              LAMBDA t : t.id \in ids)
    \o SelectSeq(ts, LAMBDA t : t.id \notin ids)
FlagAll(ts, ids, at) == [i \in 1..Len(ts) |-> IF ts[i].id \in ids THEN Flag(ts[i], at) ELSE ts[i]]

\* ------------------------------------------------- cloud adapter (Supabase)
TripSlug == "goldcoast-2025"

\* taskToDb: `x || null` turns "" and undefined into null, `x ?? v` only undefined
taskToDb(t, tripSlug) ==
    [id |-> t.id, trip_slug |-> tripSlug,
     title |-> IF t.title = "" THEN NullS ELSE t.title,
     category |-> IF t.category = "" THEN NullS ELSE t.category,
     assignee |-> t.assignee, status |-> t.status,
     details |-> IF t.details \in {UndefS, ""} THEN NullS ELSE t.details,
     sla |-> IF t.sla = UndefN THEN NullN ELSE t.sla,
     reminder_lead_minutes |-> IF t.reminderLeadMinutes = UndefN THEN NullN ELSE t.reminderLeadMinutes,
     reminder_sent |-> IF t.reminderSent = "absent" THEN "false" ELSE t.reminderSent,
     created_at |-> t.createdAt, updated_at |-> t.updatedAt]

\* dbToTask: `r.x ?? v`; `at` is new Date() for a row without timestamps
dbToTask(r, at) ==
    [id |-> r.id,
     title |-> IF r.title = NullS THEN "" ELSE r.title,
     category |-> IF r.category = NullS THEN "" ELSE r.category,
     assignee |-> IF r.assignee = NullS THEN PEOPLE[1] ELSE r.assignee,
     status |-> IF r.status = NullS THEN "Not Started" ELSE r.status,
     details |-> IF r.details = NullS THEN UndefS ELSE r.details,
     sla |-> IF r.sla = NullN THEN UndefN ELSE r.sla,
     reminderLeadMinutes |-> IF r.reminder_lead_minutes = NullN THEN UndefN ELSE r.reminder_lead_minutes,
     reminderSent |-> IF r.reminder_sent = NullS THEN "false" ELSE r.reminder_sent,
     createdAt |-> IF r.created_at = NullN THEN at ELSE r.created_at,
     updatedAt |-> IF r.updated_at = NullN THEN at ELSE r.updated_at]

\* a select without the .order clause: the rows in any order
OrderedAny(rows) ==
    {s \in [1..Cardinality(rows) -> rows] :
        \A i, j \in 1..Cardinality(rows) : i /= j => s[i] /= s[j]}
\* .order('created_at', {ascending: false}): every order of the rows with
\* created_at non-increasing (rows created at the same instant come in any order)
OrderedDesc(rows) ==
    {s \in [1..Cardinality(rows) -> rows] :
        /\ \A i, j \in 1..Cardinality(rows) : i /= j => s[i] /= s[j]
        /\ \A i, j \in 1..Cardinality(rows) : i < j => s[i].created_at >= s[j].created_at}
\* fetchCloudTasks: (data || []).map(dbToTask)
MapDbToTask(rs, at) == [i \in 1..Len(rs) |-> dbToTask(rs[i], at)]

\* the tasks table: insert fails on an existing primary key, upsert replaces the
\* row, delete removes it
RowIds(rows) == {r.id : r \in rows}
DbApply(rows, req) ==
    IF req.op = "insert" THEN (IF req.row.id \in RowIds(rows) THEN rows ELSE rows \cup {req.row})
    ELSE IF req.op = "upsert" THEN {r \in rows : r.id /= req.row.id} \cup {req.row}
    ELSE {r \in rows : r.id /= req.row.id}
\* the change the realtime feed publishes for a committed write (none when the
\* write changed no row)
DbEvents(rows, req) ==
    IF req.op = "insert"
    THEN (IF req.row.id \in RowIds(rows) THEN <<>> ELSE <<[type |-> "INSERT", row |-> req.row]>>)
    ELSE IF req.op = "upsert"
    THEN (IF req.row.id \in RowIds(rows) THEN <<[type |-> "UPDATE", row |-> req.row]>>
          ELSE <<[type |-> "INSERT", row |-> req.row]>>)
    ELSE (IF req.row.id \in RowIds(rows) THEN <<[type |-> "DELETE", row |-> req.row]>> ELSE <<>>)

\* an INSERT handler without the `exists` test
OnInsertAlways(prev, row, at) == Prepend(dbToTask(row, at), prev)
\* a DELETE handler that splices at findIndex(...) = -1 and so drops the last entry
OnDeleteSplice(prev, row) ==
    IF HasId(prev, row.id) THEN FilterOut(prev, row.id)
    ELSE IF prev = <<>> THEN prev ELSE SubSeq(prev, 1, Len(prev) - 1)
\* realtime handler, the three setTasks updaters
\* an UPDATE handler that keeps the entry the list has
OnUpdateKeep(prev, row, at) == prev
\* an UPDATE handler that takes the row's fields and keeps the entry's own
\* timestamps
OnUpdateOwnTimes(prev, row, at) ==
    [i \in 1..Len(prev) |->
        IF prev[i].id = row.id
        THEN [dbToTask(row, at) EXCEPT !.createdAt = prev[i].createdAt, !.updatedAt = prev[i].updatedAt]
        ELSE prev[i]]
OnInsert(prev, row, at) == IF HasId(prev, row.id) THEN prev ELSE Prepend(dbToTask(row, at), prev)
OnUpdate(prev, row, at) == MapReplace(prev, dbToTask(row, at))
OnDelete(prev, row) == FilterOut(prev, row.id)
OnEvent(prev, ev, at) ==
    IF ev.type = "INSERT" THEN OnInsert(prev, ev.row, at)
    ELSE IF ev.type = "UPDATE" THEN OnUpdate(prev, ev.row, at)
    ELSE OnDelete(prev, ev.row)

\* ------------------------------------------------------------------ state
VARIABLES
    now,          \* Date.now(), in minutes
    tasks,        \* App: const [tasks, setTasks] -- the canonical list
    cache,        \* localStorage item fh25.tasks.<trip>
    pending,      \* a state change has been committed and its effects have not run
    client,       \* useSupabase: client /= null
    connected,    \* useSupabase: connected
    error,        \* useSupabase: error /= null
    hs,           \* the trips upsert of useSupabase: "idle", "pending" or "done"
    fetch,        \* fetchCloudTasks: "idle", "requested", "served", "done", "failed"
    fetchSnap,    \* the rows the server answered the fetch with
    subscribed,   \* the realtime channel of this session is open
    remote,       \* the rows of the remote tasks table for this trip
    inflight,     \* writes this client has sent and the server has not handled
    events,       \* changes published to this session's channel, not yet handled
    nextId,       \* the next identifier uid() returns
    ops,          \* user actions so far
    rops,         \* writes of other clients so far
    reloads,      \* page loads so far
    last,         \* the handler that ran last: [op, id, hit]
    hist,         \* per id: what touched the task since its last reminder, once one went out
    firedBefore,  \* per id: a reminder went out for it
    refires,      \* the reminders that were not the first of their task
    dueTick,      \* per armed id: the first tick at or after its fire threshold since it was last touched
    firedSince,   \* per id: the times a reminder went out since it was last touched
    armed,        \* per id: the last touch left it due for a reminder
    mine,         \* the row of the last updateTask this client sent
    theirs,       \* the last UPDATE of another client handled after that, for the same id and with another payload
    people,       \* App: const [people, setPeople] -- the maintained assignee list
    settings,     \* App: const [settings, setSettings]
    hash,         \* location.hash: the share token of `#state=...`, or NoToken
    env,          \* where credentials can come from: globalThis, location.href, the cached pair
    timers,       \* Reminders: the intervals set and not cleared
    mounted,      \* the App component is mounted (the session scope is open)
    dev,          \* what each reminder channel does on this device when it is used
    rang,         \* the channels the last tick that had a reminder to send went through
    dialog,       \* what the page has shown: [asked] by confirm(), [alerted] by alert()
    out           \* the value the function under study returned last

sess == <<client, connected, error, hs, fetch, fetchSnap, subscribed>>
cloud == <<remote, inflight, events>>
counters == <<nextId, ops, rops, reloads>>
race == <<mine, theirs>>
ui == <<people, settings, hash, env, dialog, out>>
life == <<timers, mounted>>
chan == <<dev, rang>>
page == <<ui, life, chan>>
ghost == <<hist, firedBefore, refires, dueTick, firedSince, armed, race, page>>
vars == <<now, tasks, cache, pending, sess, cloud, counters, last, ghost>>

\* ------------------------------------------------- history of the reminders
NoTick == -1
NoRow == [id |-> 0]
NoToken == [kind |-> "none"]
NoOut == [fn |-> "none"]
NoSettings == [kickoffISO |-> UndefN]
NoDialog == [asked |-> FALSE, alerted |-> FALSE]
\* the fire threshold deadline - lead of t lies at or before `at`
PastThreshold(t, at) == t.sla /= UndefN /\ at >= t.sla - (IF t.reminderLeadMinutes = UndefN THEN 0 ELSE t.reminderLeadMinutes)
\* a task the scheduler will remind of once its fire threshold is reached
Due(t) == t.sla /= UndefN /\ t.status /= "Done" /\ ~Truthy(t.reminderSent)

DeadlineChanged(ts, ts2, id) ==
    /\ HasId(ts, id) /\ HasId(ts2, id)
    /\ \/ Find(ts, id).sla /= Find(ts2, id).sla
       \/ Find(ts, id).reminderLeadMinutes /= Find(ts2, id).reminderLeadMinutes

\* the handler `kind` turned list ts into ts2 and wrote the entries of ids X
Remembered == [hist |-> hist, firedBefore |-> firedBefore, refires |-> refires,
               dueTick |-> dueTick, firedSince |-> firedSince, armed |-> armed]

\* the record g after the tasks of X changed from list ts to list ts2
Touched(g, X, kind, ts, ts2) ==
    [g EXCEPT
        !.hist = [i \in Ids |->
                    IF i \in X /\ g.firedBefore[i]
                    THEN g.hist[i] \cup {kind} \cup (IF DeadlineChanged(ts, ts2, i) THEN {"deadline"} ELSE {})
                    ELSE g.hist[i]],
        !.dueTick = [i \in Ids |-> IF i \in X THEN NoTick ELSE g.dueTick[i]],
        !.firedSince = [i \in Ids |-> IF i \in X THEN <<>> ELSE g.firedSince[i]],
        !.armed = [i \in Ids |-> IF i \in X THEN HasId(ts2, i) /\ Due(Find(ts2, i)) ELSE g.armed[i]]]

\* the record g after a tick at `at` over list ts sent the reminders of the
\* positions F
TickedOver(g, ts, F, at) ==
    LET fired == {ts[i].id : i \in F}
        twice == {id \in fired : Cardinality({i \in F : ts[i].id = id}) > 1}
    IN  [g EXCEPT
            !.dueTick = [i \in Ids |->
                           IF g.armed[i] /\ g.dueTick[i] = NoTick /\ HasId(ts, i) /\ PastThreshold(Find(ts, i), at)
                           THEN at ELSE g.dueTick[i]],
            !.firedSince = [i \in Ids |-> IF i \in fired THEN Append(g.firedSince[i], at) ELSE g.firedSince[i]],
            !.refires = g.refires
                        \cup {[id |-> i, since |-> g.hist[i]] : i \in {j \in fired : g.firedBefore[j]}}
                        \cup {[id |-> i, since |-> {}] : i \in twice},
            !.firedBefore = [i \in Ids |-> g.firedBefore[i] \/ i \in fired],
            !.hist = [i \in Ids |-> IF i \in fired THEN {} ELSE g.hist[i]]]

Remember(g) ==
    /\ hist' = g.hist /\ firedBefore' = g.firedBefore /\ refires' = g.refires
    /\ dueTick' = g.dueTick /\ firedSince' = g.firedSince /\ armed' = g.armed

Touch(X, kind, ts, ts2) == Remember(Touched(Remembered, X, kind, ts, ts2)) /\ UNCHANGED page

\* a tick at `at` over list ts sent the reminders of the positions F
Ticked(ts, F, at) == Remember(TickedOver(Remembered, ts, F, at)) /\ UNCHANGED <<race, ui>>

\* ------------------------------------------------------- the classifier
\* Date.getTime() counts milliseconds; the classifier is the one place where
\* the model's timestamps are milliseconds and not minutes
MinuteMs == 60000
SoonMins == 240
Max0(x) == IF x > 0 THEN x ELSE 0

\* a classifier without the early return for a task without deadline
dueStateUnguarded(t, at) ==
    LET due == t.sla
        overdue == at > due /\ t.status /= "Done"
        soonMins == Max0(due - at) \div MinuteMs
    IN  [overdue |-> overdue, dueSoon |-> ~overdue /\ soonMins <= SoonMins, soonMins |-> soonMins]
\* a classifier for which a task is overdue from its deadline on
dueStateInclusive(t, at) ==
    LET due == t.sla
        overdue == at >= due /\ t.status /= "Done"
        soonMins == Max0(due - at) \div MinuteMs
    IN  IF t.sla = UndefN THEN [overdue |-> FALSE, dueSoon |-> FALSE, soonMins |-> 0]
        ELSE [overdue |-> overdue, dueSoon |-> ~overdue /\ soonMins <= SoonMins, soonMins |-> soonMins]
\* a classifier that counts started minutes and not whole ones
dueStateCeil(t, at) ==
    LET due == t.sla
        overdue == at > due /\ t.status /= "Done"
        soonMins == (Max0(due - at) + MinuteMs - 1) \div MinuteMs
    IN  IF t.sla = UndefN THEN [overdue |-> FALSE, dueSoon |-> FALSE, soonMins |-> 0]
        ELSE [overdue |-> overdue, dueSoon |-> ~overdue /\ soonMins <= SoonMins, soonMins |-> soonMins]
\* dueState(t) with Date.now() = at
dueState(t, at) ==
    IF t.sla = UndefN THEN [overdue |-> FALSE, dueSoon |-> FALSE, soonMins |-> 0]
    ELSE LET due == t.sla
             overdue == at > due /\ t.status /= "Done"
             delta == Max0(due - at)
             soonMins == delta \div MinuteMs
         IN  [overdue |-> overdue, dueSoon |-> ~overdue /\ soonMins <= SoonMins, soonMins |-> soonMins]

\* ------------------------------------------------------------ the handlers
\* a wrapper that writes to the remote table whether connected or not
SendAlways(reqs) == inflight' = inflight \cup reqs
\* what a CRUD wrapper or onFlag sends when `client && connected`
Send(reqs) == inflight' = IF client /\ connected THEN inflight \cup reqs ELSE inflight

Idle == ~pending

\* the channels of a reminder in the order the tick goes through them
Channels == <<"notification", "vibration", "audio">>
\* what a channel can do: "absent" is a missing API, a permission that is not
\* "granted" or an empty audioRef (the statement is skipped); "throws" is an
\* exception out of the call, "rejects" a play() whose promise is rejected
Outcomes(ch) == IF ch = "audio" THEN {"ok", "absent", "throws", "rejects"} ELSE {"ok", "absent", "throws"}
Devices == [{Channels[k] : k \in DOMAIN Channels} -> {"ok", "absent", "throws", "rejects"}]
AllOk == [ch \in {Channels[k] : k \in DOMAIN Channels} |-> "ok"]
\* new Notification(title, {body}) / navigator.vibrate?.(200) /
\* audioRef.current?.play().catch(()=>{}) on device d
Attempt(ch, d) == [tried |-> d[ch] /= "absent", thrown |-> d[ch] = "throws"]
\* a channel used without try: its exception leaves the tick
Uncaught(r) == r
\* try { ... } catch {}
Caught(r) == [r EXCEPT !.thrown = FALSE]
\* the body of the tick for a task that fires, from channel k on: the channels
\* it went through and whether it reached onFlag(t.id)
RECURSIVE RemindFrom(_, _)
RemindFrom(k, d) ==
    IF k > Len(Channels) THEN [tried |-> {}, flagged |-> TRUE]
    ELSE LET r == Caught(Attempt(Channels[k], d))
             here == IF r.tried THEN {Channels[k]} ELSE {}
         IN  IF r.thrown THEN [tried |-> here, flagged |-> FALSE]
             ELSE LET rest == RemindFrom(k + 1, d)
                  IN  [tried |-> here \cup rest.tried, flagged |-> rest.flagged]
Remind(d) == RemindFrom(1, d)

\* Reminders.tick over the list of the last render, with onFlag for every task
\* that fires; onFlag upserts the closure's entry with the flag set
TickOn(ts, at) ==
    LET F == IF Remind(dev).flagged THEN Firing(ts, at) ELSE {}
        fired == {ts[i].id : i \in F}
    IN  /\ rang' = IF Firing(ts, at) = {} THEN rang ELSE Remind(dev).tried
        /\ UNCHANGED dev
        /\ tasks' = FlagAll(ts, fired, at)
        /\ Send({[op |-> "upsert", row |-> taskToDb(Flag(Find(ts, id), at), TripSlug)] : id \in fired})
        /\ Ticked(ts, F, at)
        /\ pending' = (F /= {})

\* the Reminders effect leaving n intervals without clearing the last one
RearmedNoClear(n) == n + 1
\* the Reminders effect when it runs again: its cleanup, clearInterval(iv), and
\* then setInterval(tick, 30 * 1000), with n intervals before
Rearmed(n) == (IF n > 0 THEN n - 1 ELSE 0) + 1

\* onFlag(id) called by a tick of the interval of the previous render, in the
\* time between a render and its effects: the closure's list still holds a
\* task that fires, whatever the list holds now. In local mode, where onFlag
\* is the updater alone (with a client the stale entry is also upserted).
onFlag(id) ==
    /\ pending
    /\ mounted
    /\ timers > 0
    /\ ~(client /\ connected)
    /\ ops < MaxOps
    /\ ops' = ops + 1
    /\ tasks' = FlagAll(tasks, {id}, now)
    /\ pending' = TRUE
    /\ last' = [op |-> "flag", id |-> id, hit |-> HasId(tasks, id)]
    /\ rang' = Remind(dev).tried
    /\ Ticked(tasks, {i \in 1..Len(tasks) : tasks[i].id = id}, now)
    /\ UNCHANGED <<dev, life>>
    /\ UNCHANGED <<now, cache, sess, cloud, nextId, rops, reloads>>

\* setInterval(tick, 30 * 1000)
Tick ==
    /\ Idle
    /\ timers > 0
    /\ UNCHANGED life
    /\ TickOn(tasks, now)
    /\ last' = IF Firing(tasks, now) /= {} THEN [op |-> "tick", id |-> 0, hit |-> TRUE] ELSE last
    /\ UNCHANGED <<now, cache, sess, remote, events, counters>>

\* the effects that run after a render: the write-through of lines 381 and 56,
\* the fetch and subscription effects once connected, and the Reminders effect,
\* which restarts the interval and calls tick() at once
RunEffects ==
    /\ pending
    /\ mounted
    /\ hash = NoToken
    /\ timers' = Rearmed(timers)
    /\ UNCHANGED mounted
    /\ cache' = lsWrite(tasks)
    /\ IF client /\ connected /\ fetch = "idle"
       THEN fetch' = "requested" /\ subscribed' = TRUE
       ELSE UNCHANGED <<fetch, subscribed>>
    /\ TickOn(tasks, now)
    /\ last' = [op |-> "effects", id |-> 0, hit |-> Firing(tasks, now) /= {}]
    /\ UNCHANGED <<now, client, connected, error, hs, fetchSnap, remote, events, counters>>

\* truthiness of a parsed value (Undefined for a missing one)
TruthyJson(j) ==
    ~ \/ j.t \in {"undefined", "null"}
      \/ j.t = "bool" /\ ~j.v
      \/ j.t = "num" /\ j.v = 0
      \/ j.t = "str" /\ j.v = <<>>

\* ---------------------------------------------------------- credentials
\* A source of credentials holds a url and a key, "" for one it does not hold
\* (undefined, null and "" are all falsy under ||). env.g is globalThis,
\* env.search and env.hash the sb_url/sb_key parameters of the query and of
\* the fragment, env.cached the two localStorage items, env.packed the `sb`
\* parameter (search.get('sb') || hash.get('sb')), <<>> or base64 digits.
NoPair == [url |-> "", key |-> ""]
NoEnv == [g |-> NoPair, search |-> NoPair, hash |-> NoPair, cached |-> NoPair, packed |-> <<>>]
NoConfig == [url |-> "", key |-> "", null |-> TRUE]
Or(a, b) == IF a /= "" THEN a ELSE b
\* decoded.url || url, for the parsed value `decoded`
OrJson(j, k, x) == IF TruthyJson(Get(j, k)) THEN NameOf(Get(j, k).v) ELSE x
\* JSON.parse(atob(decodeURIComponent(packed))); property access on null throws
Unpacked(packed) ==
    LET bin == atob(packed)
        v == IF bin.ok THEN JsonParse(bin.v) ELSE Thrown
    IN  IF v.ok /\ v.v.t /= "null" THEN v ELSE Thrown

\* getEnvSupabase
getEnvSupabase(e) ==
    LET url0 == Or(e.g.url, Or(e.search.url, Or(e.hash.url, e.cached.url)))
        key0 == Or(e.g.key, Or(e.search.key, Or(e.hash.key, e.cached.key)))
        d == Unpacked(e.packed)
        hit == (url0 = "" \/ key0 = "") /\ e.packed /= <<>> /\ d.ok
        url == IF hit THEN OrJson(d.v, "url", url0) ELSE url0
        key == IF hit THEN OrJson(d.v, "key", key0) ELSE key0
    IN  IF url /= "" /\ key /= "" THEN [url |-> url, key |-> key, null |-> FALSE] ELSE NoConfig

\* an import that keeps the tasks the snapshot does not name
ImportedMerged(prev, list) ==
    list \o SelectSeq(prev, LAMBDA t : ~HasId(list, t.id))
\* setTasks(obj.tasks)
Imported(prev, list) == list

\* the effects of the first render of a page opened through a share link
\* (location.hash starts with "#state="): the Reminders tick and the
\* write-through as in RunEffects, and the import effect: decodeState,
\* confirm() with answer ans, setTasks and setSettings, alert() in the catch,
\* history.replaceState. The setTasks of the import comes after the updater
\* onFlag queued, so its list is the one that stays.
MountEffects(ans) ==
    /\ pending
    /\ mounted
    /\ timers' = Rearmed(timers)
    /\ UNCHANGED mounted
    /\ hash /= NoToken
    /\ rang' = IF Firing(tasks, now) = {} THEN rang ELSE Remind(dev).tried
    /\ UNCHANGED dev
    /\ LET F == IF Remind(dev).flagged THEN Firing(tasks, now) ELSE {}
           fired == {tasks[i].id : i \in F}
           kept == FlagAll(tasks, fired, now)
           d == decodeState(hash.tok)
           asked == d.ok
           threw == ~d.ok \/ (ans /\ d.v.t = "null")
           applies == d.ok /\ ans /\ ~threw
           list == Get(d.v, "tasks")
           sets == Get(d.v, "settings")
           replaces == applies /\ list.t = "arr"
           new == IF replaces THEN Imported(kept, [i \in DOMAIN list.v |-> TaskOf(list.v[i])]) ELSE kept
           g == TickedOver(Remembered, tasks, F, now)
       IN  /\ cache' = lsWrite(tasks)
           /\ tasks' = new
           /\ settings' = IF applies /\ TruthyJson(sets) THEN SettingsOf(sets) ELSE settings
           /\ dialog' = [asked |-> dialog.asked \/ asked, alerted |-> dialog.alerted \/ threw]
           /\ hash' = NoToken
           /\ out' = [fn |-> "import", tok |-> hash.tok, ans |-> ans, kept |-> kept, settings |-> settings]
           /\ Remember(IF replaces
                       THEN Touched(g, IdsOf(tasks) \cup IdsOf(new), "import", kept, new)
                       ELSE g)
           /\ pending' = TRUE
           /\ last' = [op |-> "import", id |-> 0, hit |-> replaces]
    /\ UNCHANGED <<now, sess, cloud, counters, race, people, env>>

\* openShare: snap = {tasks, settings}; encoded = encodeState(snap)
OpenShare ==
    /\ out' = [fn |-> "encodeState", v |-> encodeState(SnapJson([tasks |-> tasks, settings |-> settings]))]
    /\ last' = [op |-> "openShare", id |-> 0, hit |-> out'.v.ok]
    /\ UNCHANGED <<tasks, now, pending, cache, sess, cloud, counters>>
    /\ UNCHANGED <<hist, firedBefore, refires, dueTick, firedSince, armed, race>>
    /\ UNCHANGED <<people, settings, hash, env, dialog, life, chan>>

\* decodeState applied to the token openShare made
DecodeShare ==
    /\ out.fn = "encodeState"
    /\ out.v.ok
    /\ out' = [fn |-> "decodeState", v |-> decodeState(out.v.v)]
    /\ last' = [op |-> "decodeState", id |-> 0, hit |-> out'.v.ok]
    /\ UNCHANGED <<tasks, now, pending, cache, sess, cloud, counters>>
    /\ UNCHANGED <<hist, firedBefore, refires, dueTick, firedSince, armed, race>>
    /\ UNCHANGED <<people, settings, hash, env, dialog, life, chan>>

\* a render of the task table: dueState of the row at position i
Classify(i) ==
    /\ i \in DOMAIN tasks
    /\ out' = [fn |-> "dueState", t |-> tasks[i], at |-> now, v |-> dueState(tasks[i], now)]
    /\ last' = [op |-> "dueState", id |-> tasks[i].id, hit |-> out'.v.overdue]
    /\ UNCHANGED <<tasks, now, pending, cache, sess, cloud, counters>>
    /\ UNCHANGED <<hist, firedBefore, refires, dueTick, firedSince, armed, race>>
    /\ UNCHANGED <<people, settings, hash, env, dialog, life, chan>>

\* useSupabase's mount effect: const env = getEnvSupabase()
ResolveEnv ==
    /\ out' = [fn |-> "getEnvSupabase", v |-> getEnvSupabase(env)]
    /\ last' = [op |-> "getEnvSupabase", id |-> 0, hit |-> ~out'.v.null]
    /\ UNCHANGED <<tasks, now, pending, cache, sess, cloud, counters>>
    /\ UNCHANGED <<hist, firedBefore, refires, dueTick, firedSince, armed, race>>
    /\ UNCHANGED <<people, settings, hash, env, dialog, life, chan>>

Clock ==
    /\ now < MaxNow
    /\ now' = now + 1
    /\ UNCHANGED <<tasks, cache, pending, sess, cloud, counters, last, ghost>>

UserEdit ==
    /\ Idle
    /\ mounted
    /\ ops < (IF client /\ connected THEN MaxSyncOps ELSE MaxOps)
    /\ ops' = ops + 1

\* TaskForm.submit -> addTask
AddTask(sla, lead) ==
    LET t == NewTask(nextId, sla, lead, now) IN
    /\ Idle
    /\ mounted
    /\ nextId \in Ids
    /\ tasks' = Prepend(t, tasks)
    /\ Send({[op |-> "insert", row |-> taskToDb(t, TripSlug)]})
    /\ nextId' = nextId + 1
    /\ pending' = TRUE
    /\ last' = [op |-> "add", id |-> t.id, hit |-> FALSE]
    /\ Touch({t.id}, "add", tasks, tasks')
    /\ UNCHANGED race
    /\ UNCHANGED <<now, cache, sess, remote, events, ops, rops, reloads>>

\* updateTask(next), next built by one of the TaskTable onChange handlers from
\* the rendered entry `t`
updateTask(next, kind) ==
    /\ UserEdit
    /\ tasks' = MapReplace(tasks, next)
    /\ Send({[op |-> "upsert", row |-> taskToDb(next, TripSlug)]})
    /\ pending' = TRUE
    /\ last' = [op |-> kind, id |-> next.id, hit |-> TRUE]
    /\ Touch({next.id}, kind, tasks, tasks')
    /\ mine' = IF client /\ connected THEN taskToDb(next, TripSlug) ELSE mine
    /\ theirs' = IF client /\ connected THEN NoRow ELSE theirs
    /\ UNCHANGED <<now, cache, sess, remote, events, nextId, rops, reloads>>

EditTitle(i, v) ==
    /\ i \in 1..Len(tasks) /\ v /= tasks[i].title
    /\ updateTask([tasks[i] EXCEPT !.title = v, !.updatedAt = now], "editTitle")

\* the assignee select of a table row, whose options are allAssignees
EditAssignee(i, v) ==
    /\ i \in 1..Len(tasks) /\ v /= tasks[i].assignee
    /\ v \in Names(people, tasks)
    /\ updateTask([tasks[i] EXCEPT !.assignee = v, !.updatedAt = now], "editAssignee")

\* the Add button of the assignee dialog, with raw typed into its field; the
\* people list is kept in the local cache only
AddAssignee(raw) ==
    LET n == Trim(raw) IN
    /\ Idle
    /\ mounted
    /\ n /= ""
    /\ Len(people) < Len(PEOPLE) + MaxNames
    /\ people' = IF \E i \in DOMAIN people : people[i] = n THEN people ELSE Append(people, n)
    /\ pending' = TRUE
    /\ last' = [op |-> "addAssignee", id |-> 0, hit |-> people' /= people]
    /\ UNCHANGED <<tasks, now, cache, sess, cloud, counters>>
    /\ UNCHANGED <<hist, firedBefore, refires, dueTick, firedSince, armed, race>>
    /\ UNCHANGED <<settings, hash, env, dialog, out, life, chan>>

\* Countdown.onChange: setSettings({...settings, kickoffISO: iso}) and, when
\* connected, setKickoffISO(iso), an upsert of the trips row; the trips table
\* is not part of the model and the request names no task (identifier 0)
SetKickoff(iso) ==
    /\ UserEdit
    /\ iso /= settings.kickoffISO
    /\ settings' = [settings EXCEPT !.kickoffISO = iso]
    /\ Send({[op |-> "kickoff", row |-> [id |-> 0, kickoff_iso |-> iso]]})
    /\ pending' = TRUE
    /\ last' = [op |-> "kickoff", id |-> 0, hit |-> TRUE]
    /\ UNCHANGED <<tasks, now, cache, sess, remote, events, nextId, rops, reloads>>
    /\ UNCHANGED <<hist, firedBefore, refires, dueTick, firedSince, armed, race>>
    /\ UNCHANGED <<people, hash, env, dialog, out, life, chan>>

StatusKind(old, new) == IF new = "Done" THEN "done" ELSE IF old = "Done" THEN "reopen" ELSE "status"

\* a status handler that resets the flag the way the deadline handler does
EditStatusReset(i, v) ==
    /\ i \in 1..Len(tasks) /\ v /= tasks[i].status
    /\ updateTask([tasks[i] EXCEPT !.status = v, !.updatedAt = now, !.reminderSent = "false"],
                  StatusKind(tasks[i].status, v))

EditStatus(i, v) ==
    /\ i \in 1..Len(tasks) /\ v /= tasks[i].status
    /\ updateTask([tasks[i] EXCEPT !.status = v, !.updatedAt = now], StatusKind(tasks[i].status, v))

EditSla(i, v) ==
    /\ i \in 1..Len(tasks) /\ v /= tasks[i].sla
    /\ updateTask([tasks[i] EXCEPT !.sla = v, !.updatedAt = now, !.reminderSent = "false"], "editSla")

\* a lead handler that forgets `reminderSent: false`
EditLeadKeep(i, v) ==
    /\ i \in 1..Len(tasks) /\ v /= tasks[i].reminderLeadMinutes
    /\ updateTask([tasks[i] EXCEPT !.reminderLeadMinutes = v, !.updatedAt = now], "editLead")

EditLead(i, v) ==
    /\ i \in 1..Len(tasks) /\ v /= tasks[i].reminderLeadMinutes
    /\ updateTask([tasks[i] EXCEPT !.reminderLeadMinutes = v, !.updatedAt = now, !.reminderSent = "false"], "editLead")

\* deleteTask(id)
DeleteTask(i) ==
    /\ i \in 1..Len(tasks)
    /\ UserEdit
    /\ tasks' = FilterOut(tasks, tasks[i].id)
    /\ Send({[op |-> "delete", row |-> [id |-> tasks[i].id]]})
    /\ pending' = TRUE
    /\ last' = [op |-> "delete", id |-> tasks[i].id, hit |-> TRUE]
    /\ Touch({tasks[i].id}, "delete", tasks, tasks')
    /\ UNCHANGED race
    /\ UNCHANGED <<now, cache, sess, remote, events, nextId, rops, reloads>>

\* ------------------------------------------------------ the remote service
\* a wrapper that undoes its optimistic change when the write fails
AfterWriteRollback(ts, req, ok) == IF ok THEN ts ELSE FilterOut(ts, req.row.id)
\* the rest of a CRUD wrapper after `await client.from('tasks')...`: nothing
\* follows the await, whether the write succeeded or not
AfterWrite(ts, req, ok) == ts

\* the feed delivers a committed change to the open channel; `by` records whose
\* write it was and no handler reads it
Publish(evs, by) ==
    events' = IF subscribed
              THEN events \o [k \in DOMAIN evs |-> [type |-> evs[k].type, row |-> evs[k].row, by |-> by]]
              ELSE events

\* the server commits a write of this client
ServeWrite(req) ==
    /\ Idle
    /\ req \in inflight
    /\ inflight' = inflight \ {req}
    /\ remote' = DbApply(remote, req)
    /\ Publish(DbEvents(remote, req), "me")
    /\ tasks' = AfterWrite(tasks, req, TRUE)
    /\ UNCHANGED <<now, cache, pending, sess, counters, last, ghost>>

\* a write of this client fails (no answer, or an error answer)
FailWrite(req) ==
    /\ Idle
    /\ req \in inflight
    /\ inflight' = inflight \ {req}
    /\ tasks' = AfterWrite(tasks, req, FALSE)
    /\ last' = [op |-> "writeFailed", id |-> req.row.id, hit |-> HasId(tasks, req.row.id)]
    /\ UNCHANGED <<now, cache, pending, sess, remote, events, counters, ghost>>

\* what another client of the same trip, running the same program on an
\* up-to-date view of row r, writes
OtherEdits(t, at) ==
    {[t EXCEPT !.title = v, !.updatedAt = at] : v \in Titles \ {t.title}}
    \cup {[t EXCEPT !.status = v, !.updatedAt = at] : v \in StatusSet \ {t.status}}
    \cup {[t EXCEPT !.sla = v, !.updatedAt = at, !.reminderSent = "false"] : v \in SlaInputs \ {t.sla}}
    \cup {Flag(x, at) : x \in {y \in {t} : Fires(y, at)}}

OtherReqs(at) ==
    {[op |-> "upsert", row |-> taskToDb(e, TripSlug)] : e \in UNION {OtherEdits(dbToTask(r, at), at) : r \in remote}}
    \cup {[op |-> "delete", row |-> [id |-> r.id]] : r \in remote}

OtherCommit(req) ==
    /\ Idle
    /\ rops < MaxRemoteOps /\ rops' = rops + 1
    /\ remote' = DbApply(remote, req)
    /\ Publish(DbEvents(remote, req), "other")
    /\ UNCHANGED <<now, tasks, cache, pending, sess, inflight, nextId, ops, reloads, last, ghost>>

OtherWrite == \E req \in OtherReqs(now) : OtherCommit(req)

\* another client adds a task, assigned to a name of its own people list
OtherAdd(sla, who) ==
    /\ nextId \in Ids
    /\ nextId' = nextId + 1
    /\ Idle
    /\ rops < MaxRemoteOps /\ rops' = rops + 1
    /\ LET req == [op |-> "insert", row |-> taskToDb([NewTask(nextId, sla, UndefN, now) EXCEPT !.assignee = who], TripSlug)]
       IN  remote' = DbApply(remote, req) /\ Publish(DbEvents(remote, req), "other")
    /\ UNCHANGED <<now, tasks, cache, pending, sess, inflight, ops, reloads, last, ghost>>

OtherInsert(sla) == OtherAdd(sla, PEOPLE[1])

\* the event is an UPDATE of another client for the task this client last
\* updated, with a payload other than the one this client sent
Raced(ev) ==
    /\ ev.type = "UPDATE" /\ ev.by = "other"
    /\ mine /= NoRow /\ mine.id = ev.row.id /\ ev.row /= mine

\* the realtime subscription handler (postgres_changes)
Deliver ==
    /\ Idle
    /\ subscribed
    /\ events /= <<>>
    /\ LET ev == Head(events)
           hit == HasId(tasks, ev.row.id)
           X == IF (ev.type = "INSERT") = hit THEN {} ELSE {ev.row.id}
       IN  /\ tasks' = OnEvent(tasks, ev, now)
           /\ events' = Tail(events)
           \* setTasks(prev => prev) bails out; map and filter build a new array
           /\ pending' = ~(ev.type = "INSERT" /\ hit)
           /\ last' = [op |-> ev.type, id |-> ev.row.id, hit |-> hit]
           /\ Touch(X, ev.type, tasks, tasks')
           /\ theirs' = IF Raced(ev) THEN ev.row ELSE theirs
           /\ UNCHANGED mine
    /\ UNCHANGED <<now, cache, sess, remote, inflight, counters>>

\* ------------------------------------------------------------ the session
\* useSupabase: the trips upsert resolved -> setConnected(true)
HandshakeOk ==
    /\ Idle
    /\ mounted
    /\ hs = "pending"
    /\ hs' = "done"
    /\ connected' = TRUE
    /\ pending' = TRUE
    /\ last' = [op |-> "handshakeOk", id |-> 0, hit |-> TRUE]
    /\ UNCHANGED <<now, tasks, cache, client, error, fetch, fetchSnap, subscribed, cloud, counters, ghost>>

\* a handshake that fails and is tried again
HandshakeFailRetry ==
    /\ Idle
    /\ mounted
    /\ hs = "pending"
    /\ hs' = "pending"
    /\ error' = TRUE
    /\ connected' = FALSE
    /\ pending' = TRUE
    /\ last' = [op |-> "handshakeFail", id |-> 0, hit |-> FALSE]
    /\ UNCHANGED <<now, tasks, cache, client, fetch, fetchSnap, subscribed, cloud, counters, ghost>>

\* useSupabase: the trips upsert threw -> setError(...); setConnected(false)
HandshakeFail ==
    /\ Idle
    /\ mounted
    /\ hs = "pending"
    /\ hs' = "done"
    /\ error' = TRUE
    /\ connected' = FALSE
    /\ pending' = TRUE
    /\ last' = [op |-> "handshakeFail", id |-> 0, hit |-> FALSE]
    /\ UNCHANGED <<now, tasks, cache, client, fetch, fetchSnap, subscribed, cloud, counters, ghost>>

\* useSupabase: the trips upsert was refused and its promise resolved with
\* {data: null, error}; the result is not looked at -> setConnected(true)
HandshakeErr ==
    /\ Idle
    /\ mounted
    /\ hs = "pending"
    /\ hs' = "error"
    /\ connected' = TRUE
    /\ pending' = TRUE
    /\ last' = [op |-> "handshakeErr", id |-> 0, hit |-> FALSE]
    /\ UNCHANGED <<now, tasks, cache, client, error, fetch, fetchSnap, subscribed, cloud, counters, ghost>>

\* the server answers fetchCloudTasks with the rows it holds at that moment
FetchServe ==
    /\ fetch = "requested"
    /\ Idle
    /\ \E s \in OrderedDesc(remote) : fetchSnap' = s
    /\ fetch' = "served"
    /\ UNCHANGED <<now, tasks, cache, pending, client, connected, error, hs, subscribed, cloud, counters, last, ghost>>

\* fetchCloudTasks throws; the effect's catch swallows it
FetchFail ==
    /\ fetch = "requested"
    /\ Idle
    /\ fetch' = "failed"
    /\ UNCHANGED <<now, tasks, cache, pending, client, connected, error, hs, fetchSnap, subscribed, cloud, counters, last, ghost>>

\* the load effect continues after its await: setTasks(cloudTasks)
FetchDone ==
    /\ fetch = "served"
    /\ Idle
    /\ mounted
    /\ tasks' = MapDbToTask(fetchSnap, now)
    /\ fetch' = "done"
    /\ fetchSnap' = <<>>
    /\ pending' = TRUE
    /\ last' = [op |-> "fetch", id |-> 0, hit |-> TRUE]
    /\ Touch(IdsOf(tasks) \cup IdsOf(tasks'), "fetch", tasks, tasks')
    /\ UNCHANGED race
    /\ UNCHANGED <<now, cache, client, connected, error, hs, subscribed, cloud, counters>>

\* a page load: App mounts, tasks are seeded from the local cache, and
\* useSupabase creates a client when getEnvSupabase resolves a credential pair.
\* Writes already sent stay with the server; the old channel is gone.
Reload(creds) ==
    /\ Idle
    /\ reloads < MaxReloads /\ reloads' = reloads + 1
    /\ cache.has
    /\ tasks' = lsRead(cache, <<>>)
    /\ client' = creds
    /\ connected' = FALSE
    /\ error' = FALSE
    /\ hs' = IF creds THEN "pending" ELSE "idle"
    /\ fetch' = "idle"
    /\ fetchSnap' = <<>>
    /\ subscribed' = FALSE
    /\ events' = <<>>
    /\ pending' = TRUE
    /\ last' = [op |-> "reload", id |-> 0, hit |-> creds]
    /\ timers' = 0
    /\ mounted' = TRUE
    /\ UNCHANGED <<now, cache, remote, inflight, nextId, ops, rops>>
    /\ UNCHANGED <<hist, firedBefore, refires, dueTick, firedSince, armed, race, ui, chan>>

\* the App component unmounts: the cleanup of the Reminders effect clears its
\* interval, the cleanup of the subscription effect removes the channel; what
\* the server had already published stays undelivered
Unmount ==
    /\ Idle
    /\ mounted
    /\ mounted' = FALSE
    /\ timers' = Rearmed(timers) - 1
    /\ subscribed' = FALSE
    /\ last' = [op |-> "unmount", id |-> 0, hit |-> subscribed]
    /\ UNCHANGED <<now, tasks, cache, pending, client, connected, error, hs, fetch, fetchSnap>>
    /\ UNCHANGED <<cloud, counters>>
    /\ UNCHANGED <<hist, firedBefore, refires, dueTick, firedSince, armed, race, ui, chan>>

\* ---------------------------------------------------------- specification
\* The lists a page load finds in the local cache: one task, added at minute 0
\* in an earlier session; either it has no deadline, or its deadline was minute
\* 0, its reminder went out and it was then set to Done.
Plain == [NewTask(1, UndefN, UndefN, 0) EXCEPT !.reminderSent = "false"]
Reminded == [NewTask(1, 0, UndefN, 0) EXCEPT !.reminderSent = "true", !.status = "Done"]
Stored == {Plain, Reminded}

\* what every behaviour starts with: minute 0, identifier 1 handed out, nothing
\* in flight, and the history of the stored task
StartOn(t, tok, d) ==
    /\ now = 0
    /\ dev = d
    /\ rang = {}
    /\ fetchSnap = <<>>
    /\ inflight = {}
    /\ events = <<>>
    /\ nextId = 2
    /\ ops = 0
    /\ rops = 0
    /\ reloads = 0
    /\ hist = [i \in Ids |-> IF i = t.id /\ Truthy(t.reminderSent) THEN {"done"} ELSE {}]
    /\ firedBefore = [i \in Ids |-> i = t.id /\ Truthy(t.reminderSent)]
    /\ refires = {}
    /\ dueTick = [i \in Ids |-> NoTick]
    /\ firedSince = [i \in Ids |-> <<>>]
    /\ armed = [i \in Ids |-> FALSE]
    /\ mine = NoRow
    /\ theirs = NoRow
    /\ people = PEOPLE
    /\ settings = NoSettings
    /\ hash = tok
    /\ env = NoEnv
    /\ mounted = TRUE
    /\ dialog = NoDialog
    /\ out = NoOut

StartAt(t, tok) == StartOn(t, tok, AllOk)
Start(t) == StartAt(t, NoToken)

\* a page load with or without credentials over a cache that holds one task;
\* the remote table is empty or holds the rows of `rows`
Loaded(creds, t, rows) ==
    /\ timers = 0
    /\ cache = lsWrite(<<t>>)
    /\ tasks = lsRead(cache, <<>>)
    /\ pending = TRUE
    /\ client = creds
    /\ connected = FALSE
    /\ error = FALSE
    /\ hs = IF creds THEN "pending" ELSE "idle"
    /\ fetch = "idle"
    /\ subscribed = FALSE
    /\ remote = rows
    /\ last = [op |-> "reload", id |-> 0, hit |-> creds]

BootAt(creds, t, rows, tok) == StartAt(t, tok) /\ Loaded(creds, t, rows)
Boot(creds, t, rows) == BootAt(creds, t, rows, NoToken)

Init == \E creds \in BOOLEAN, t \in Stored : Boot(creds, t, {})

Next ==
    \/ RunEffects
    \/ Tick
    \/ Clock
    \/ \E sla \in SlaInputs, lead \in LeadInputs : AddTask(sla, lead)
    \/ \E i \in DOMAIN tasks, v \in Titles : EditTitle(i, v)
    \/ \E i \in DOMAIN tasks, v \in StatusSet : EditStatus(i, v)
    \/ \E i \in DOMAIN tasks, v \in SlaInputs : EditSla(i, v)
    \/ \E i \in DOMAIN tasks, v \in LeadInputs : EditLead(i, v)
    \/ \E i \in DOMAIN tasks : DeleteTask(i)
    \/ \E req \in inflight : ServeWrite(req)
    \/ \E req \in inflight : FailWrite(req)
    \/ OtherWrite
    \/ \E sla \in SlaInputs : OtherInsert(sla)
    \/ Deliver
    \/ HandshakeOk
    \/ HandshakeFail
    \/ HandshakeErr
    \/ FetchServe
    \/ FetchFail
    \/ FetchDone
    \/ \E creds \in BOOLEAN : Reload(creds)

\* the whole program
Spec == Init /\ [][Next]_vars

\* a session without credentials: the list, the cache and the scheduler
InitLocal == \E t \in Stored : Boot(FALSE, t, {})

NextLocal ==
    \/ RunEffects
    \/ Tick
    \/ Clock
    \/ \E sla \in SlaInputs, lead \in LeadInputs : AddTask(sla, lead)
    \/ \E i \in DOMAIN tasks, v \in Titles : EditTitle(i, v)
    \/ \E i \in DOMAIN tasks, v \in StatusSet : EditStatus(i, v)
    \/ \E i \in DOMAIN tasks, v \in SlaInputs : EditSla(i, v)
    \/ \E i \in DOMAIN tasks, v \in LeadInputs : EditLead(i, v)
    \/ \E i \in DOMAIN tasks : DeleteTask(i)
    \/ Reload(FALSE)

SpecLocal == InitLocal /\ [][NextLocal]_vars

\* a connected session of a single client, after the handshake and the fetch:
\* the list, the cache and the remote table hold the stored task
Synced(t) ==
    /\ Start(t)
    /\ timers = 1
    /\ tasks = <<t>>
    /\ cache = lsWrite(tasks)
    /\ pending = FALSE
    /\ client = TRUE
    /\ connected = TRUE
    /\ error = FALSE
    /\ hs = "done"
    /\ fetch = "done"
    /\ subscribed = TRUE
    /\ remote = {taskToDb(t, TripSlug)}
    /\ last = [op |-> "effects", id |-> 0, hit |-> FALSE]

InitSync == Synced(Plain)

NextSync ==
    \/ RunEffects
    \/ Tick
    \/ Clock
    \/ \E sla \in SlaInputs, lead \in LeadInputs : AddTask(sla, lead)
    \/ \E i \in DOMAIN tasks, v \in Titles : EditTitle(i, v)
    \/ \E i \in DOMAIN tasks : DeleteTask(i)
    \/ \E req \in inflight : ServeWrite(req)
    \/ \E req \in inflight : FailWrite(req)
    \/ Deliver

SpecSync == InitSync /\ [][NextSync]_vars

\* two clients write the stored task while this one is connected
InitRace == Synced(Plain)

NextRace ==
    \/ RunEffects
    \/ \E i \in DOMAIN tasks, v \in Titles : EditTitle(i, v)
    \/ \E req \in inflight : ServeWrite(req)
    \/ \E req \in inflight : FailWrite(req)
    \/ OtherWrite
    \/ Deliver

SpecRace == InitRace /\ [][NextRace]_vars

\* a page load with credentials: the handshake, the one fetch and the
\* subscription, over a remote table that is empty or holds an edited copy of
\* the stored task
Renamed == [Plain EXCEPT !.title = "a"]
StartRows == {{}, {taskToDb(Renamed, TripSlug)}}

InitStart == \E t \in Stored, rows \in StartRows : Boot(TRUE, t, rows)

NextStart ==
    \/ RunEffects
    \/ Clock
    \/ \E sla \in SlaInputs, lead \in LeadInputs : AddTask(sla, lead)
    \/ \E req \in inflight : ServeWrite(req)
    \/ Deliver
    \/ HandshakeOk
    \/ HandshakeFail
    \/ FetchServe
    \/ FetchFail
    \/ FetchDone

SpecStart == InitStart /\ [][NextStart]_vars

\* what share links carry: snapshots, made by openShare from a list and
\* settings, and tokens that are not base64, not JSON, or JSON that is no
\* snapshot (null, 42, {} and {"tasks":5})
Shared1 == [NewTask(1, 1, 1, 0) EXCEPT !.title = "a", !.reminderSent = "false"]
Shared2 == [NewTask(2, UndefN, UndefN, 0) EXCEPT !.title = "caf<U+00E9> <U+2022> 8am"]
Snapshots ==
    {[tasks |-> <<>>, settings |-> NoSettings],
     [tasks |-> <<Shared1>>, settings |-> [kickoffISO |-> 5]],
     [tasks |-> <<Shared2, Shared1>>, settings |-> NoSettings]}
openShare(ts, st) == encodeState(SnapJson([tasks |-> ts, settings |-> st])).v
BadTokens ==
    {<<65, 65>>, btoa(<<123, 34>>).v}
    \cup {encodeState(j).v : j \in {JNull, JNum(42), JObj(<<>>),
                                     JObj(<<Member(Chars("tasks"), JNum(5))>>)}}
ShareTokens == {openShare(snap.tasks, snap.settings) : snap \in Snapshots} \cup BadTokens

\* a page opened through a share link, without credentials
InitShare ==
    \E t \in Stored, tok \in ShareTokens : BootAt(FALSE, t, {}, [kind |-> "state", tok |-> tok])

NextShare ==
    \/ \E ans \in BOOLEAN : MountEffects(ans)
    \/ RunEffects
    \/ Clock
    \/ \E i \in DOMAIN tasks, v \in Titles : EditTitle(i, v)
    \/ Reload(FALSE)

SpecShare == InitShare /\ [][NextShare]_vars

\* a page opened with credentials, plainly or through a share link that
\* carries a list without duplicates; this client and another one add tasks
\* under fresh identifiers while the handshake, the fetch and the feed go on
InitUnique ==
    \E t \in Stored, rows \in StartRows :
        \E tok \in {NoToken, [kind |-> "state", tok |-> openShare(<<Shared1>>, NoSettings)]} :
            BootAt(TRUE, t, rows, tok)

NextUnique ==
    \/ \E ans \in BOOLEAN : MountEffects(ans)
    \/ RunEffects
    \/ \E sla \in SlaInputs, lead \in LeadInputs : AddTask(sla, lead)
    \/ \E i \in DOMAIN tasks, v \in Titles : EditTitle(i, v)
    \/ \E i \in DOMAIN tasks : DeleteTask(i)
    \/ \E req \in inflight : ServeWrite(req)
    \/ \E sla \in SlaInputs : OtherInsert(sla)
    \/ Deliver
    \/ HandshakeOk
    \/ FetchServe
    \/ FetchDone

SpecUnique == InitUnique /\ [][NextUnique]_vars

\* a session without credentials whose stored task has a deadline or none;
\* ticks of the current interval and late calls of onFlag from the previous one
InitFlag == \E t \in {Plain, Shared1} : Boot(FALSE, t, {})

NextFlag ==
    \/ RunEffects
    \/ Tick
    \/ Clock
    \/ \E sla \in SlaInputs, lead \in LeadInputs : AddTask(sla, lead)
    \/ \E i \in DOMAIN tasks : DeleteTask(i)
    \/ \E id \in Ids : onFlag(id)

SpecFlag == InitFlag /\ [][NextFlag]_vars

\* a page in local mode that holds the list ts and the settings st, its
\* effects run, at minute `at`
PageAt(ts, st, at, e) ==
    /\ now = at
    /\ fetchSnap = <<>> /\ inflight = {} /\ events = <<>>
    /\ nextId = 3
    /\ ops = 0 /\ rops = 0 /\ reloads = 0
    /\ hist = [i \in Ids |-> {}]
    /\ firedBefore = [i \in Ids |-> FALSE]
    /\ refires = {}
    /\ dueTick = [i \in Ids |-> NoTick]
    /\ firedSince = [i \in Ids |-> <<>>]
    /\ armed = [i \in Ids |-> FALSE]
    /\ mine = NoRow /\ theirs = NoRow
    /\ people = PEOPLE /\ settings = st /\ hash = NoToken /\ env = e
    /\ timers = 1 /\ mounted = TRUE /\ dev = AllOk /\ rang = {}
    /\ dialog = NoDialog /\ out = NoOut
    /\ tasks = ts
    /\ cache = lsWrite(ts)
    /\ pending = FALSE
    /\ client = FALSE /\ connected = FALSE /\ error = FALSE
    /\ hs = "idle" /\ fetch = "idle" /\ subscribed = FALSE
    /\ remote = {}
    /\ last = [op |-> "none", id |-> 0, hit |-> FALSE]

LocalPage(ts, st, at) == PageAt(ts, st, at, NoEnv)

\* the assignee dialog and the assignee select, with another client that has
\* added a name to its own people list
TypedNames == {"", " ", " Zed ", "Zed", "Buzza"}
OtherNames == {"Zed", "Buzza"}
InitPeople == Synced(Plain)

NextPeople ==
    \/ RunEffects
    \/ \E raw \in TypedNames : AddAssignee(raw)
    \/ \E i \in DOMAIN tasks, v \in Names(people, tasks) : EditAssignee(i, v)
    \/ \E i \in DOMAIN tasks : DeleteTask(i)
    \/ \E who \in OtherNames : OtherAdd(UndefN, who)
    \/ \E req \in inflight : ServeWrite(req)
    \/ Deliver

SpecPeople == InitPeople /\ [][NextPeople]_vars

\* the classifier over one task of every status, without deadline or with a
\* deadline around the instant of the render (in milliseconds): a day, a
\* minute and a millisecond before it, that instant, and up to 241 minutes
\* after it
DayMs == 1440 * MinuteMs
Instants == {DayMs, DayMs + 1, DayMs + 30000}
Offsets ==
    {0 - DayMs, 0 - MinuteMs, 0 - 1, 0, 1, MinuteMs - 1, MinuteMs,
     239 * MinuteMs, SoonMins * MinuteMs, SoonMins * MinuteMs + MinuteMs - 1,
     241 * MinuteMs}
InitDue ==
    \E at \in Instants, st \in StatusSet :
      \E sla \in {UndefN} \cup {at + d : d \in Offsets} :
        LocalPage(<<[NewTask(1, sla, UndefN, 0) EXCEPT !.status = st]>>, NoSettings, at)

NextDue == \E i \in DOMAIN tasks : Classify(i)

SpecDue == InitDue /\ [][NextDue]_vars

\* the places credentials can come from at a page load: each of globalThis,
\* the query, the fragment and the cache holds nothing, a url, a key or both;
\* the packed parameter is absent, not base64, JSON null, or an object with a
\* url, a key or both
Pairs(u, k) == {[url |-> a, key |-> b] : a \in {"", u}, b \in {"", k}}
Packs ==
    {<<>>, <<65, 65>>, btoa(JsonText(JNull)).v}
    \cup {btoa(JsonText(JObj(ms))).v :
            ms \in {<<Member(Chars("url"), JStr(Chars("pu"))), Member(Chars("key"), JStr(Chars("pk")))>>,
                    <<Member(Chars("url"), JStr(Chars("pu")))>>,
                    <<Member(Chars("key"), JStr(Chars("pk")))>>}}
Envs ==
    {[g |-> a, search |-> b, hash |-> c, cached |-> d, packed |-> p] :
        a \in {NoPair, [url |-> "gu", key |-> "gk"]}, b \in Pairs("qu", "qk"),
        c \in {NoPair, [url |-> "hu", key |-> "hk"]}, d \in Pairs("cu", "ck"), p \in Packs}
InitEnv == \E e \in Envs : PageAt(<<Plain>>, NoSettings, 0, e)

NextEnv == ResolveEnv

SpecEnv == InitEnv /\ [][NextEnv]_vars

\* a session that stays in local mode, without credentials or with a handshake
\* that throws, while another client writes to the remote table
InitOffline == \E creds \in BOOLEAN : Boot(creds, Plain, {})

NextOffline ==
    \/ RunEffects
    \/ Tick
    \/ Clock
    \/ \E sla \in SlaInputs, lead \in LeadInputs : AddTask(sla, lead)
    \/ \E i \in DOMAIN tasks, v \in Titles : EditTitle(i, v)
    \/ \E i \in DOMAIN tasks : DeleteTask(i)
    \/ \E iso \in SlaInputs : SetKickoff(iso)
    \/ HandshakeFail
    \/ \E sla \in SlaInputs : OtherInsert(sla)

SpecOffline == InitOffline /\ [][NextOffline]_vars

\* a session without credentials on every kind of device: each channel works,
\* is missing or fails
InitChannels ==
    \E d \in Devices :
        /\ \A ch \in DOMAIN d : d[ch] \in Outcomes(ch)
        /\ StartOn(Plain, NoToken, d)
        /\ Loaded(FALSE, Plain, {})

NextChannels ==
    \/ RunEffects
    \/ Tick
    \/ Clock
    \/ \E sla \in SlaInputs, lead \in LeadInputs : AddTask(sla, lead)

SpecChannels == InitChannels /\ [][NextChannels]_vars

\* a connected session that ends: the component unmounts while a task is about
\* to become due and the echo of a write is still to be delivered
InitTeardown == Synced(Plain)

NextTeardown ==
    \/ RunEffects
    \/ Tick
    \/ Clock
    \/ \E sla \in SlaInputs, lead \in LeadInputs : AddTask(sla, lead)
    \/ \E req \in inflight : ServeWrite(req)
    \/ Deliver
    \/ Unmount

SpecTeardown == InitTeardown /\ [][NextTeardown]_vars

\* the snapshots of the round trip: lists of up to MaxShared tasks drawn from a
\* task with every optional field absent, one with every field present, one
\* whose texts need escaping and multi-byte encoding, and a reminded one;
\* settings with and without a kickoff
MaxShared == 2
Bare == NewTask(1, UndefN, UndefN, 0)
Full == [id |-> 2, title |-> "Flights", category |-> "Flights", assignee |-> "Stork",
         status |-> "In Progress", details |-> "Book 2x rounds", sla |-> 1440,
         reminderLeadMinutes |-> 60, reminderSent |-> "false",
         createdAt |-> 0, updatedAt |-> 1]
Quoted == [Full EXCEPT !.id = 1, !.title = "say \"hi\"", !.details = "caf<U+00E9> <U+2022> 8am",
                       !.status = "Done", !.reminderSent = "true", !.reminderLeadMinutes = 0]
CodecTasks == {Bare, Full, Quoted, Shared2}
CodecLists == UNION {[1..n -> CodecTasks] : n \in 0..MaxShared}

InitCodec ==
    \E ts \in CodecLists, k \in {UndefN, 5} : LocalPage(ts, [kickoffISO |-> k], 0)

NextCodec == OpenShare \/ DecodeShare

SpecCodec == InitCodec /\ [][NextCodec]_vars

\* the very first page load: the cache holds nothing and the list is seeded
\* with makeSeedTasks()
FirstLoad(creds, roll) ==
    /\ now = 0
    /\ fetchSnap = <<>> /\ inflight = {} /\ events = <<>>
    /\ nextId = Len(DEFAULT_TASKS) + 1
    /\ ops = 0 /\ rops = 0 /\ reloads = 0
    /\ hist = [i \in Ids |-> {}]
    /\ firedBefore = [i \in Ids |-> FALSE]
    /\ refires = {}
    /\ dueTick = [i \in Ids |-> NoTick]
    /\ firedSince = [i \in Ids |-> <<>>]
    /\ armed = [i \in Ids |-> FALSE]
    /\ mine = NoRow /\ theirs = NoRow
    /\ people = PEOPLE /\ settings = NoSettings /\ hash = NoToken /\ env = NoEnv
    /\ timers = 0 /\ mounted = TRUE /\ dev = AllOk /\ rang = {}
    /\ dialog = NoDialog /\ out = NoOut
    /\ cache = NoItem
    /\ tasks = lsRead(cache, makeSeedTasks(now, roll))
    /\ pending = TRUE
    /\ client = creds
    /\ connected = FALSE
    /\ error = FALSE
    /\ hs = IF creds THEN "pending" ELSE "idle"
    /\ fetch = "idle"
    /\ subscribed = FALSE
    /\ remote = {}
    /\ last = [op |-> "reload", id |-> 0, hit |-> creds]

\* a cold start, with or without credentials, over an empty or a filled cache,
\* and the session that follows it
InitCold ==
    \/ \E creds \in BOOLEAN, t \in Stored : Boot(creds, t, {})
    \/ \E creds \in BOOLEAN, roll \in Rolls : FirstLoad(creds, roll)

NextCold ==
    \/ RunEffects
    \/ Clock
    \/ \E i \in DOMAIN tasks, v \in Titles : EditTitle(i, v)
    \/ HandshakeOk
    \/ HandshakeFail
    \/ HandshakeErr
    \/ FetchServe
    \/ FetchFail
    \/ FetchDone
    \/ \E creds \in BOOLEAN : Reload(creds)

SpecCold == InitCold /\ [][NextCold]_vars

\* ------------------------------------------------------------- properties
StatusKinds == {"done", "reopen", "status"}

\* the step is the realtime handler taking an event of this type
DeliverStep(type) ==
    /\ ~pending /\ subscribed /\ events /= <<>>
    /\ Head(events).type = type
    /\ events' = Tail(events)
    /\ last'.op = type

\* the step is the failure of a write of this client
FailStep ==
    /\ ~pending
    /\ \E req \in inflight : inflight' = inflight \ {req}
    /\ remote' = remote /\ events' = events
    /\ last'.op = "writeFailed"

\* the step is a CRUD wrapper called by the user
UserStep(op) == ~pending /\ pending' /\ last'.op = op /\ (ops' = ops + 1 \/ nextId' = nextId + 1)

\* ts without its k-th entry
Without(ts, k) == [j \in 1..(Len(ts) - 1) |-> IF j < k THEN ts[j] ELSE ts[j + 1]]

\* C1: the scheduler never reminds twice of the same task identifier unless
\* the task's deadline or reminder lead changed between the two reminders.
C1_NoSecondReminderWithoutDeadlineChange ==
    \A e \in refires : "deadline" \in e.since

\* C2: a task left due by its last edit and not edited since has had exactly
\* one reminder if a tick ran at or after deadline - lead, sent at the first
\* such tick, and none otherwise.
C2_ExactlyOnceAtFirstDueTick ==
    \A i \in Ids :
        (armed[i] /\ HasId(tasks, i)) =>
            firedSince[i] = IF dueTick[i] = NoTick THEN <<>> ELSE <<dueTick[i]>>

\* C2 witness: a task with deadline minute 1 and no lead, untouched since it
\* became due, was reminded of at minute 1 and the clock has passed the deadline.
C2_Witness ==
    \E i \in Ids :
        /\ armed[i] /\ HasId(tasks, i)
        /\ Find(tasks, i).sla = 1 /\ Find(tasks, i).reminderLeadMinutes = UndefN
        /\ firedSince[i] = <<1>>
        /\ now = 2 /\ ~pending

\* C3: right after the deadline handler or the lead handler has called
\* updateTask, the edited task is in the list with reminderSent = false.
C3_DeadlineEditResetsFlag ==
    last.op \in {"editSla", "editLead"} =>
        /\ HasId(tasks, last.id)
        /\ Find(tasks, last.id).reminderSent = "false"

\* C3 witness: the stored task whose reminder had gone out (flag true) has just
\* had its deadline or lead edited, and nothing else touched it before.
C3_Witness ==
    /\ last.op \in {"editSla", "editLead"}
    /\ pending
    /\ firedBefore[last.id]
    /\ hist[last.id] = {"done", last.op, "deadline"}

\* C4: a status edit leaves reminderSent as it was, and no reminder is repeated
\* for a task that only status edits touched since its previous reminder.
C4_StatusEditNeverRefires ==
    /\ [](\A e \in refires : ~(e.since \subseteq StatusKinds))
    /\ [][\A k \in StatusKinds :
            UserStep(k) => Find(tasks', last'.id).reminderSent = Find(tasks, last'.id).reminderSent]_vars

\* C4 witness: the stored task (reminder sent, then Done) was re-opened, is past
\* its threshold, and the tick that followed the re-opening has run.
C4_Witness ==
    \E i \in Ids :
        /\ HasId(tasks, i)
        /\ firedBefore[i] /\ hist[i] = {"done", "reopen"}
        /\ Find(tasks, i).status /= "Done"
        /\ Truthy(Find(tasks, i).reminderSent)
        /\ PastThreshold(Find(tasks, i), now)
        /\ ~pending /\ last.op = "effects"

\* C6: a live INSERT for an identifier that is in the list leaves the list as
\* it is.
C6_InsertOfPresentIdIsNoOp ==
    [][(DeliverStep("INSERT") /\ HasId(tasks, Head(events).row.id)) => tasks' = tasks]_vars

\* C6 witness: the handler has just taken an INSERT whose identifier was present.
C6_Witness == last.op = "INSERT" /\ last.hit /\ Len(tasks) = 2

\* C7: a live DELETE for an identifier that is not in the list leaves the list
\* as it is; for one that is, it removes that entry and nothing else.
C7_DeleteRemovesOnlyItsEntry ==
    [][DeliverStep("DELETE") =>
          IF HasId(tasks, Head(events).row.id)
          THEN \E k \in DOMAIN tasks :
                  tasks[k].id = Head(events).row.id /\ tasks' = Without(tasks, k)
          ELSE tasks' = tasks]_vars

\* C7 witness: the handler has just taken a DELETE whose identifier was absent
\* while the list held another task.
C7_Witness == last.op = "DELETE" /\ ~last.hit /\ tasks /= <<>>

\* C8: a CRUD wrapper changes the list in the step that sends the write, and
\* the failure of a write leaves the list as it is.
C8_NoRollbackOnFailure ==
    [][/\ FailStep => tasks' = tasks
       /\ UserStep("add") =>
            /\ Len(tasks') = Len(tasks) + 1 /\ tasks'[1].id = last'.id
            /\ (client /\ connected) => \E r \in inflight' : r.op = "insert" /\ r.row.id = last'.id
       /\ UserStep("delete") =>
            /\ HasId(tasks, last'.id) /\ ~HasId(tasks', last'.id)
            /\ (client /\ connected) => \E r \in inflight' : r.op = "delete" /\ r.row.id = last'.id
       /\ UserStep("editTitle") =>
            /\ Find(tasks', last'.id).title /= Find(tasks, last'.id).title
            /\ (client /\ connected) => \E r \in inflight' : r.op = "upsert" /\ r.row.id = last'.id
      ]_vars

\* C8 witness: a write for a task has failed and the task it was about is
\* still in the list.
C8_Witness == last.op = "writeFailed" /\ last.hit /\ ~pending

\* C10: once the effects of a change have run, the cache item holds the
\* canonical list, and reading it back gives that list.
C10_WriteThrough ==
    ~pending => (cache.has /\ lsRead(cache, <<>>) = tasks)

\* C10 witness: the effects have run over a list of two tasks, one of them
\* flagged by the scheduler, the other not, while a write is still in flight.
C10_Witness ==
    /\ ~pending /\ last.op = "effects" /\ Len(tasks) = 2
    /\ \E i, j \in DOMAIN tasks : tasks[i].reminderSent = "true" /\ tasks[j].reminderSent = "false"
    /\ inflight /= {}

\* the step is the server answering the fetch
FetchServeStep == fetch = "requested" /\ fetch' = "served"

\* the step is the load effect storing what it fetched
FetchDoneStep == fetch = "served" /\ fetch' = "done"

\* C9: the fetch is answered with the rows of the remote table, newest created
\* first, and when it succeeds the list becomes that answer, entry by entry, so
\* that no task the remote table does not hold remains, also when the table is
\* empty.
C9_FetchReplacesWholesale ==
    [][/\ FetchServeStep =>
            /\ Len(fetchSnap') = Cardinality(remote)
            /\ \A r \in remote : \E k \in DOMAIN fetchSnap' : fetchSnap'[k] = r
            /\ \A j, k \in DOMAIN fetchSnap' :
                  j < k => fetchSnap'[j].created_at >= fetchSnap'[k].created_at
       /\ FetchDoneStep =>
            /\ Len(tasks') = Len(fetchSnap)
            /\ \A k \in DOMAIN tasks' : taskToDb(tasks'[k], TripSlug) = fetchSnap[k]
            /\ IdsOf(tasks') = {fetchSnap[k].id : k \in DOMAIN fetchSnap}
      ]_vars

\* C9 witness: the fetch has just replaced a list by two rows created at
\* different minutes, the newer one first.
C9_Witness ==
    /\ last.op = "fetch" /\ pending
    /\ Len(tasks) = 2
    /\ tasks[1].createdAt > tasks[2].createdAt

\* C9, the empty table: the fetch has just emptied the list.
C9_WitnessEmpty == last.op = "fetch" /\ pending /\ tasks = <<>> /\ cache.val /= <<>>

\* nothing is left to handle: no write in flight, no event queued, effects run
Settled == ~pending /\ inflight = {} /\ events = <<>>

\* this client updated a task and then handled another client's UPDATE of it,
\* and the task is in the list
RaceOver == Settled /\ theirs /= NoRow /\ HasId(tasks, theirs.id)

\* C5 as stated: once a local updateTask and a later-handled UPDATE of another
\* client for the same task have settled, the entry equals that UPDATE's payload.
C5_RemotePayloadWins ==
    RaceOver => taskToDb(Find(tasks, theirs.id), TripSlug) = theirs

\* C5 amended: once they have settled, the entry equals the row the remote table
\* holds, the payload of the write committed last, which is this client's own
\* when its write was committed after the other client's.
C5_LastCommittedWins ==
    RaceOver => taskToDb(Find(tasks, theirs.id), TripSlug) \in remote

\* C5 witness: settled after the race, and the entry is this client's own
\* payload rather than the other client's.
C5_Witness ==
    /\ RaceOver
    /\ taskToDb(Find(tasks, theirs.id), TripSlug) = mine
    /\ mine /= theirs

\* C11: a session without a credential pair starts from the list the cache item
\* holds, or from the seed tasks when there is no item, and stays in local mode:
\* not connected, no error, no handshake, fetch or subscription.
C11_NoCredentialsLocalMode ==
    ~client =>
        /\ ~connected /\ ~error
        /\ hs = "idle" /\ fetch = "idle" /\ ~subscribed
        /\ last.op = "reload" =>
              IF cache.has THEN tasks = FromJsonList(cache.val)
              ELSE \E roll \in Rolls, at \in 0..now : tasks = makeSeedTasks(at, roll)

\* C11 witness: the first load without credentials has seeded the list with the
\* seed tasks, the effects have run and the session is in local mode.
C11_Witness ==
    /\ ~client /\ reloads = 0 /\ ~pending /\ ~connected
    /\ \E roll \in Rolls : tasks = makeSeedTasks(0, roll)
    /\ cache = lsWrite(tasks)

\* the trips upsert of this session has failed, by rejecting or by resolving
\* with an error
HandshakeFailed == hs = "error" \/ (hs = "done" /\ error)

\* C12: after a failed handshake the session is in local mode with the error
\* recorded, and no fetch or subscription has been started.
C12_FailedHandshakeLocalMode ==
    HandshakeFailed => (~connected /\ error /\ fetch = "idle" /\ ~subscribed)

\* the step stays within the session (no page load)
SameSession == reloads' = reloads

IsSnapshot(tok) ==
    LET d == decodeState(tok)
    IN  /\ d.ok
        /\ Get(d.v, "tasks").t = "arr"
        /\ \A i \in DOMAIN Get(d.v, "tasks").v : Get(d.v, "tasks").v[i].t = "obj"
        /\ Get(d.v, "settings").t = "obj"
SnapshotTasks(tok) ==
    LET list == Get(decodeState(tok).v, "tasks").v
    IN  [i \in DOMAIN list |-> TaskOf(list[i])]
JustImported == last.op = "import" /\ out.fn = "import"

\* C14 as stated: after the import effect ran on a token that does not decode
\* to a snapshot, an alert was shown and the list and the settings are as the
\* effect found them.
C14_MalformedTokenSurfaced ==
    (JustImported /\ ~IsSnapshot(out.tok)) =>
        (dialog.alerted /\ tasks = out.kept /\ settings = out.settings)

\* C15: the import effect asks before it applies a snapshot; declined, the list
\* and the settings stay; confirmed, the list is the snapshot's list.
C15_ImportOnlyAfterConfirm ==
    /\ (JustImported /\ ~out.ans) => (tasks = out.kept /\ settings = out.settings)
    /\ (JustImported /\ IsSnapshot(out.tok)) =>
          /\ dialog.asked
          /\ out.ans => tasks = SnapshotTasks(out.tok)

\* C15 witness: a confirmed import has replaced the stored task by the two
\* tasks of a snapshot.
C15_Witness ==
    /\ JustImported /\ out.ans /\ IsSnapshot(out.tok)
    /\ Len(out.kept) = 1 /\ Len(tasks) = 2 /\ ~HasId(tasks, 0)
    /\ tasks[2].id = out.kept[1].id /\ tasks[2] /= out.kept[1]

\* C16: the token openShare makes of the list and the settings decodes, and
\* the decoded value is that snapshot: the same tasks with the same fields
\* (an absent field stays absent) and the same settings.
C16_ShareRoundTrip ==
    /\ out.fn = "encodeState" => out.v.ok
    /\ out.fn = "decodeState" =>
          /\ out.v.ok
          /\ out.v.v = SnapJson([tasks |-> tasks, settings |-> settings])
          /\ Get(out.v.v, "tasks").t = "arr"
          /\ Len(Get(out.v.v, "tasks").v) = Len(tasks)
          /\ \A i \in DOMAIN tasks : TaskOf(Get(out.v.v, "tasks").v[i]) = tasks[i]
          /\ SettingsOf(Get(out.v.v, "settings")) = settings

RoundTripped == out.fn = "decodeState" /\ out.v.ok
\* C16 witnesses: the round trip of an empty list without kickoff, and of a
\* list with an all-absent task and a task with every field present, texts that
\* need escaping and multi-byte encoding, with a kickoff.
C16_WitnessEmpty == RoundTripped /\ tasks = <<>> /\ settings = NoSettings
C16_Witness ==
    /\ RoundTripped /\ tasks = <<Bare, Quoted>> /\ settings.kickoffISO = 5

\* C17 as stated: no step takes a name out of the assignee set, the people
\* list together with the assignees on the tasks.
C17_AssigneeSetNeverShrinks ==
    [][Names(people, tasks) \subseteq Names(people', tasks')]_vars

Classified == out.fn = "dueState"

\* C18: of a task without deadline the classifier says not overdue, not due
\* soon and zero minutes remaining, whatever the status and the instant.
C18_NoDeadlineNothingDue ==
    (Classified /\ out.t.sla = UndefN) =>
        out.v = [overdue |-> FALSE, dueSoon |-> FALSE, soonMins |-> 0]

\* C18 witness: a task without deadline that is not Done was classified.
C18_Witness ==
    Classified /\ out.t.sla = UndefN /\ out.t.status = "In Progress" /\ out.at > 0

\* C19: of a task with a deadline, overdue is true exactly when the instant is
\* strictly after the deadline and the status is not Done.
C19_OverdueStrictAndNotDone ==
    (Classified /\ out.t.sla /= UndefN) =>
        /\ out.v.overdue <=> (out.at > out.t.sla /\ out.t.status /= "Done")
        /\ out.t.status = "Done" => ~out.v.overdue
        /\ (out.t.sla = out.at - 1 /\ out.t.status = "Not Started") => out.v.overdue

\* C19 witnesses: a task not started whose deadline was one millisecond ago is
\* overdue; a Done task whose deadline was a day ago is not; a task due at this
\* very instant is not.
C19_Witness ==
    Classified /\ out.t.sla = out.at - 1 /\ out.t.status = "Not Started" /\ out.v.overdue
C19_WitnessDone ==
    Classified /\ out.t.sla = out.at - DayMs /\ out.t.status = "Done" /\ ~out.v.overdue
C19_WitnessNow ==
    Classified /\ out.t.sla = out.at /\ out.t.status = "Not Started" /\ ~out.v.overdue

\* C20: of a task with a deadline, the minutes remaining are
\* max(0, floor((deadline - now) / 60000)); due soon is true exactly when the
\* task is not overdue and at most 240 minutes remain; 239 minutes ahead is due
\* soon and not overdue, 241 minutes ahead is not due soon; never both overdue
\* and due soon.
C20_MinutesRemainingAndDueSoon ==
    (Classified /\ out.t.sla /= UndefN) =>
        /\ out.v.soonMins = Max0((out.t.sla - out.at) \div 60000)
        /\ out.v.dueSoon <=> (~out.v.overdue /\ out.v.soonMins <= 240)
        /\ out.t.sla = out.at + 239 * 60000 => (out.v.dueSoon /\ ~out.v.overdue)
        /\ out.t.sla = out.at + 241 * 60000 => ~out.v.dueSoon
        /\ ~(out.v.overdue /\ out.v.dueSoon)

\* C20 witnesses: 239 minutes ahead, due soon; 241 minutes ahead, not; one
\* millisecond short of a minute ahead, zero minutes remaining.
C20_Witness ==
    /\ Classified /\ out.t.sla = out.at + 239 * 60000 /\ out.t.status = "Not Started"
    /\ out.v.dueSoon /\ ~out.v.overdue /\ out.v.soonMins = 239
C20_WitnessFar ==
    Classified /\ out.t.sla = out.at + 241 * 60000 /\ ~out.v.dueSoon /\ out.v.soonMins = 241
C20_WitnessFloor ==
    Classified /\ out.t.sla = out.at + 59999 /\ out.v.soonMins = 0 /\ out.v.dueSoon

\* the pair a source provides, and the first pair in the order of the claim:
\* configuration, query, fragment, packed parameter, cache
Provides(p) == p.url /= "" /\ p.key /= ""
PackedPair(packed) ==
    LET d == Unpacked(packed)
    IN  IF packed /= <<>> /\ d.ok
        THEN [url |-> OrJson(d.v, "url", ""), key |-> OrJson(d.v, "key", "")]
        ELSE NoPair
InPriority(e) == <<e.g, e.search, e.hash, PackedPair(e.packed), e.cached>>
FirstPair(e) ==
    LET ps == SelectSeq(InPriority(e), Provides)
    IN  IF ps = <<>> THEN NoConfig ELSE [url |-> ps[1].url, key |-> ps[1].key, null |-> FALSE]
Resolved == out.fn = "getEnvSupabase"

\* C21 as stated: the credentials resolved are the pair of the first source
\* that provides one, in the order configuration, query, fragment, packed
\* parameter, cached pair.
C21_FirstPairInPriorityOrder == Resolved => out.v = FirstPair(env)

\* the tasks this client added while connected: their identifiers were handed
\* out in this session and their insert was sent
AddedConnected ==
    {id \in 2..(nextId - 1) :
        \/ \E r \in remote : r.id = id
        \/ \E req \in inflight : req.op = "insert" /\ req.row.id = id}

\* C22 as stated: the fetch result replaces the list at most once per session,
\* and when it does, every task this client added while connected, before the
\* result arrived, is still in the list.
C22_FetchDiscardsNoChange ==
    [][/\ (fetch = "done" /\ SameSession) => fetch' = "done"
       /\ FetchDoneStep =>
            \A i \in DOMAIN tasks :
                tasks[i].id \in AddedConnected => \E k \in DOMAIN tasks' : tasks'[k] = tasks[i]
      ]_vars

\* C23: a live UPDATE leaves the list as long as it was; the entry with the
\* row's identifier, if there is one, then carries every field of the row, its
\* timestamps and its reminder flag included, and every other entry is as
\* before; for an identifier that is not in the list nothing changes.
C23_UpdateReplacesInPlace ==
    [][DeliverStep("UPDATE") =>
          LET row == Head(events).row IN
          /\ Len(tasks') = Len(tasks)
          /\ \A k \in DOMAIN tasks :
                IF tasks[k].id = row.id
                THEN /\ taskToDb(tasks'[k], TripSlug) = row
                     /\ tasks'[k].updatedAt = row.updated_at
                     /\ tasks'[k].createdAt = row.created_at
                     /\ Truthy(tasks'[k].reminderSent) = Truthy(row.reminder_sent)
                ELSE tasks'[k] = tasks[k]
          /\ ~HasId(tasks, row.id) => tasks' = tasks]_vars

\* C23 witnesses: the handler has just put the row of an earlier write, with
\* its older timestamp, in the place of an entry edited since, next to another
\* entry; and it has just taken an UPDATE for an identifier that the list,
\* which is not empty, does not hold.
C23_Witness ==
    /\ last.op = "UPDATE" /\ last.hit /\ Len(tasks) = 2
    /\ \E req \in inflight :
          /\ req.op = "upsert" /\ req.row.id = last.id
          /\ req.row.updated_at > Find(tasks, last.id).updatedAt
C23_WitnessAbsent == last.op = "UPDATE" /\ ~last.hit /\ tasks /= <<>>

\* the step is a tick of the scheduler: the interval's, or the one the
\* Reminders effect runs after a render
TickStep == last'.op \in {"tick", "effects"} /\ (last' /= last \/ tasks' /= tasks)
Quiet(t) == t.sla = UndefN \/ t.status = "Done"
NoDuplicates(ts) == \A j, k \in DOMAIN ts : ts[j].id = ts[k].id => j = k

\* C24: a tick sends no reminder for a task that has no deadline or is Done,
\* and leaves such a task as it is, however far the clock is past its threshold.
C24_NoReminderForQuietTask ==
    [][TickStep =>
          \A k \in DOMAIN tasks :
              Quiet(tasks[k]) =>
                  /\ k \in DOMAIN tasks' /\ tasks'[k] = tasks[k]
                  /\ NoDuplicates(tasks) => firedSince'[tasks[k].id] = firedSince[tasks[k].id]
      ]_vars

\* C24 witness: the effects have run at a minute past the deadline of a task
\* that is Done and not flagged; no reminder went out for it and it is still
\* not flagged.
C24_Witness ==
    /\ last.op = "effects" /\ ~pending
    /\ \E k \in DOMAIN tasks :
          /\ tasks[k].status = "Done" /\ tasks[k].sla /= UndefN /\ now > FireAt(tasks[k])
          /\ ~Truthy(tasks[k].reminderSent)
          /\ firedSince[tasks[k].id] = <<>>

\* the session is in local mode: no client, or the handshake has not succeeded
LocalMode == ~client \/ ~connected
LocalOps == {"add", "editTitle", "editAssignee", "status", "done", "reopen", "editSla",
             "editLead", "delete", "tick", "effects", "import", "reload"}

C25_WitnessOther ==
    /\ LocalMode /\ ~pending /\ ops > 0
    /\ \E r \in remote : ~HasId(tasks, r.id)
    /\ events = <<>> /\ ~subscribed

Ordered(ts) == \A k \in DOMAIN ts : ts[k].updatedAt >= ts[k].createdAt
\* the step is a field edit or a tick of this client
MutationStep ==
    /\ last'.op \in {"editTitle", "editAssignee", "status", "done", "reopen", "editSla", "editLead",
                      "tick", "effects"}
    /\ Len(tasks') = Len(tasks)

\* C26: every task in the list has updatedAt >= createdAt, in every state; a
\* task a field edit or the scheduler's flag update changes gets the current
\* time as its updatedAt, which is not before the one it had; a task added
\* gets the current time as both.
C26_UpdatedAtNotBeforeCreatedAt ==
    [][/\ Ordered(tasks) /\ Ordered(tasks')
       /\ MutationStep =>
            \A k \in DOMAIN tasks :
                tasks'[k] /= tasks[k] =>
                    /\ tasks'[k].updatedAt = now
                    /\ tasks'[k].updatedAt >= tasks[k].updatedAt
                    /\ tasks'[k].createdAt = tasks[k].createdAt
       /\ UserStep("add") => (tasks'[1].createdAt = now /\ tasks'[1].updatedAt = now)
      ]_vars

\* C26 witness: a task created at an earlier minute has just been flagged by
\* the scheduler and carries the current minute as its updatedAt.
C26_Witness ==
    /\ last.op \in {"tick", "effects"} /\ last.hit
    /\ \E k \in DOMAIN tasks :
          /\ Truthy(tasks[k].reminderSent)
          /\ tasks[k].updatedAt = now /\ tasks[k].createdAt < now

\* C27: never more than one reminder interval is set; the unmount leaves none
\* and closes the subscription; and once the component is unmounted no
\* reminder goes out and the list does not change.
C27_TeardownStopsTimerAndFeed ==
    [][/\ timers <= 1 /\ timers' <= 1
       /\ (mounted /\ ~mounted') => (timers' = 0 /\ ~subscribed')
       /\ (~mounted /\ SameSession) =>
            /\ tasks' = tasks /\ firedSince' = firedSince
            /\ timers' = 0 /\ ~subscribed'
      ]_vars

\* C27 witness: the component is unmounted, the clock has since reached the
\* threshold of a task that is not flagged, and a published event is still in
\* the queue of the closed channel.
C27_Witness ==
    /\ ~mounted /\ timers = 0 /\ ~subscribed
    /\ events /= <<>>
    /\ \E k \in DOMAIN tasks : Fires(tasks[k], now) /\ tasks[k].sla = now

\* C28: a tick that has reminders to send flags every task that fires and goes
\* through every channel the device has, whichever of them fail.
C28_FlagSetWhateverChannelFails ==
    [][(TickStep /\ Firing(tasks, now) /= {}) =>
         /\ \A i \in Firing(tasks, now) :
                /\ Truthy(tasks'[i].reminderSent)
                /\ firedSince'[tasks[i].id] /= firedSince[tasks[i].id]
         /\ \A k \in DOMAIN Channels : dev[Channels[k]] /= "absent" => Channels[k] \in rang'
      ]_vars

\* C28 witness: on a device whose notification and vibration throw and whose
\* audio is rejected, a reminder has gone out through all three and the task
\* is flagged.
C28_Witness ==
    /\ dev = [notification |-> "throws", vibration |-> "throws", audio |-> "rejects"]
    /\ rang = {"notification", "vibration", "audio"}
    /\ \E k \in DOMAIN tasks : Truthy(tasks[k].reminderSent) /\ firedSince[tasks[k].id] /= <<>>

\* C28 witness: a device with no channel at all still flags the task.
C28_WitnessNone ==
    /\ \A k \in DOMAIN Channels : dev[Channels[k]] = "absent"
    /\ rang = {}
    /\ \E k \in DOMAIN tasks : Truthy(tasks[k].reminderSent) /\ firedSince[tasks[k].id] /= <<>>

\* the identifiers this client has had in its list and has no more: with no
\* other writer, the ones deleteTask removed
DeletedHere == {id \in 1..(nextId - 1) : ~HasId(tasks, id)}

\* C29 as stated: a task that deleteTask removed does not come back into the
\* list when a write for it that was in flight completes and its event arrives.
C29_DeletedTaskStaysDeleted ==
    [][\A id \in DeletedHere : ~HasId(tasks', id)]_vars

\* C30: the list never holds two entries with the same identifier.
C30_NoDuplicateIdentifiers == NoDuplicates(tasks)

\* C30 witness: the INSERT echo of a task this client added has been handled
\* after the fetch replaced the list, and the list holds the task once, with
\* another task beside it.
C30_Witness ==
    /\ last.op = "INSERT" /\ last.hit /\ last.id = 2
    /\ fetch = "done"
    /\ Len(tasks) = 2 /\ HasId(tasks, 2) /\ HasId(tasks, 1)

\* C30 witness: the list was imported from a share link and a task of another
\* client then came in over the feed.
C30_WitnessImport ==
    /\ dialog.asked /\ out.fn = "import" /\ out.ans
    /\ last.op = "INSERT" /\ ~last.hit
    /\ Len(tasks) = 2

\* connected, with the fetch stored and no write, event or render outstanding
Quiescent ==
    /\ client /\ connected /\ subscribed
    /\ fetch = "done"
    /\ inflight = {} /\ events = <<>>
    /\ ~pending
\* the list holds the rows' tasks: the same identifiers, and each entry is
\* stored as its row
Agrees(ts, rows) ==
    /\ IdsOf(ts) = RowIds(rows)
    /\ \A i \in DOMAIN ts : taskToDb(ts[i], TripSlug) \in rows

\* C31 as stated: with every write committed and every event delivered in
\* commit order, a connected session with nothing in flight shows exactly the
\* tasks the remote table holds.
C31_SettledListIsRemote == Quiescent => Agrees(tasks, remote)

\* the step is a call of onFlag outside the tick of the current interval
FlagStep == last'.op = "flag" /\ ops' = ops + 1
\* t with the flag set at minute `at` and nothing else changed
Flagged(t, at) ==
    [f \in DOMAIN t |-> IF f = "reminderSent" THEN "true" ELSE IF f = "updatedAt" THEN at ELSE t[f]]

\* C32: the scheduler's flag update keeps the length and the order of the
\* list; the entries it changes are the ones it flags, which end with
\* reminderSent true, updatedAt the current minute and every other field as it
\* was; and a flag update for an identifier the list does not hold changes
\* nothing.
C32_FlagUpdateFrame ==
    [][/\ (TickStep \/ FlagStep) =>
            /\ Len(tasks') = Len(tasks)
            /\ \A k \in DOMAIN tasks :
                   tasks'[k] = tasks[k] \/ tasks'[k] = Flagged(tasks[k], now)
       /\ TickStep => \A k \in DOMAIN tasks : ~Fires(tasks[k], now) => tasks'[k] = tasks[k]
       /\ FlagStep =>
            /\ \A k \in DOMAIN tasks :
                   tasks'[k] = IF tasks[k].id = last'.id THEN Flagged(tasks[k], now) ELSE tasks[k]
            /\ ~HasId(tasks, last'.id) => tasks' = tasks
      ]_vars

\* C32 witness: onFlag has flagged the second of two entries at a later
\* minute; the first entry is not flagged.
C32_Witness ==
    /\ last.op = "flag" /\ last.hit /\ now > 0
    /\ Len(tasks) = 2 /\ tasks[2].id = last.id
    /\ tasks[2].reminderSent = "true" /\ tasks[2].updatedAt = now
    /\ tasks[1].reminderSent /= "true"

\* C32 witness: onFlag was called for a task the list had lost, and the list
\* still holds another task.
C32_WitnessAbsent ==
    /\ last.op = "flag" /\ ~last.hit
    /\ tasks /= <<>> /\ ~HasId(tasks, last.id)
====
